---- MODULE Spec2Model ----
(***************************************************************************)
(* Keypad calculator of Projects/Project_3, in its two variants:           *)
(*   "LED"      Part_1/calculatorLED.c       (binary result on 8 LEDs)     *)
(*   "SevenSeg" Part_2/calculatorSevenSeg.c  (two multiplexed digits)      *)
(*                                                                         *)
(* The program is one polling loop.  A state of the model is the program   *)
(* at a call of scanKeypad(); one step is: scanKeypad() returns a key      *)
(* code, and the code runs until the next call of scanKeypad().  pc names  *)
(* the call site the program is blocked at.  The global keyVal only holds  *)
(* the key of the current step (every read follows a write of the same     *)
(* step); it is the parameter k of the actions and not a variable.         *)
(*                                                                         *)
(* Specifications:                                                         *)
(*   Spec, SpecLive   any number of calculations, key by key               *)
(*   SpecFirstCycle   the first calculation, all digit keys                *)
(*   SpecDisplay      displayResult() on '#', statement by statement:      *)
(*                    doOperation(), updateDisplay(), displayNumber()      *)
(*   SpecMain         main() statement by statement, calls as one step     *)
(*   SpecScan         scanKeypad() statement by statement, keys going     *)
(*                    down and up at any moment                             *)
(*   SpecTap          scanKeypad() with one key tapped time and again      *)
(*   SpecStartup      power-up to the first operand, statement by          *)
(*                    statement: blinkDisplay(), updateDisplay()           *)
(*   SpecOperator     getOperator() showing the operator glyph             *)
(*                                                                         *)
(* Lock box of Projects/Project_4 and light meter of Projects/Project_5:   *)
(* a polling loop and one interrupt routine each, the loop modelled one    *)
(* statement group per step and the routine as a step between them.        *)
(*   SpecLock, SpecLockLive     the lock box, any pin samples              *)
(*   SpecMeter, SpecMeterLive   the light meter                            *)
(***************************************************************************)
EXTENDS Integers, Sequences, FiniteSets, TLC

(* ------------------------------------------------------------------ *)
(* Program constants                                                   *)
(* ------------------------------------------------------------------ *)
MAX_INPUT == 99
KEY_NONE == 255
KEY_RESET == 14
KEY_HASH == 15
OP_ADD == 10
OP_SUB == 11
OP_MUL == 12
OP_DIV == 13
BLINK_RATE == 5

SEG_A == 64
SEG_B == 32
SEG_C == 16
SEG_D == 8
SEG_E == 4
SEG_F == 2
SEG_G == 1
SEG_DP == 128
TENS_DIGIT_PIN == 0
UNITS_DIGIT_PIN == 1
DISPLAY_RESET == 0
DISPLAY_NUM1 == 1
DISPLAY_OPERATOR == 2
DISPLAY_NUM2 == 3
DISPLAY_RESULT == 4
PATTERN_E == SEG_A + SEG_F + SEG_G + SEG_E + SEG_D
PATTERN_MINUS == SEG_G
PATTERN_BLANK == 0

(* ------------------------------------------------------------------ *)
(* Bounds of the model                                                 *)
(* ------------------------------------------------------------------ *)
\* The digit keys the user presses in the session model are 0..MaxDigit
\* (the keypad has 0..9; the evaluator is checked on all of 0..99 below).
MaxDigit == 2

Variants == {"LED", "SevenSeg"}
AllDigits == 0..9
DigitKeys == {d \in AllDigits : d <= MaxDigit}
OperatorKeys == {OP_ADD, OP_SUB, OP_MUL, OP_DIV}
\* what scanKeypad() can return: a key of the 4x4 table, or 0xFF
KeyCodes == DigitKeys \cup OperatorKeys \cup {KEY_RESET, KEY_HASH, KEY_NONE}

\* Project_4/initialize.h
LOCKING_CODE == 33
STATE_READY == 0
STATE_TENS_INPUT == 1
STATE_ONES_INPUT == 2
MOTOR_RELAY_PIN == 2
BUZZER_PIN == 5
DIGIT_ONES_PIN == 1

VARIABLES
  variant,            \* which program runs
  pc,                 \* the scanKeypad() call the program is blocked at
  num1, num2, operator, result, waitingForHashKey, validInput,
  LATD,               \* LED port (LED) / segment bus (SevenSeg)
  \* calculatorLED.c only
  num11, num12, num21, num22,
  number, blink_counter, blink_state,     \* locals of displayBinaryWithBlink
  \* calculatorSevenSeg.c only
  num1_tens, num1_units, num2_tens, num2_units,
  displayMode, currentDisplayValue, isDisplayNegative,
  previousMode,       \* static of updateDisplay
  storedNum1,         \* local of getOperator
  savedNum1,          \* local of main
  LATA,               \* digit select lines
  \* observers
  errorIndication,    \* doOperation played the divide-by-zero indication in this cycle
  typed,              \* keys the program acted on since the main loop last restarted
  resetPressed,       \* the key of the last step was '*'
  \* scanKeypad(), both programs
  LATB,               \* column lines RB0..RB3 (low nibble of LATB)
  col, row, key, timeout,                 \* locals of scanKeypad
  held,               \* the keys that are down, as <<row, column>>
  \* observers of scanKeypad()
  heldChanged,        \* a key went down or up during the sweep of this call
  tapped,             \* the one key the user taps (SpecTap), or <<>>
  pressDetected,      \* a call has detected the present press of that key
  pressTimedOut,      \* the present press of that key outlasted a release wait
  \* Project_4/main.c, the lock box
  system_state, current_digit, tens_digit, ones_digit, entered_code,
  emergency_active,   \* set by the INT0 service routine, cleared by main
  prev_button, prev_pr1, prev_pr2, pr1_activated, pr2_activated,
  reset_counter,
  button_state, pr1_state, pr2_state,     \* the pins as sampled in this pass
  \* observers of the lock box
  last_button, last_pr1, last_pr2,        \* the pins as sampled in the pass before this
  \* Project_5/main.c, the light meter
  systemState, interruptTriggered,
  haltCounter,        \* local of Handle_System_Halt
  LATC,               \* RC3, the halt indicator
  ADCON0_GO,          \* ADCON0bits.GO: a conversion is running
  lumen,              \* the light level last computed, a float
  placement,          \* what the build placed in the bytes behind data[9]
  \* observer of the light meter
  lateInterrupt       \* my_ISR ran last with systemState other than 0

ledDigits == <<num11, num12, num21, num22>>
ledBlink == <<number, blink_counter, blink_state>>
ledVars == <<num11, num12, num21, num22, number, blink_counter, blink_state>>
segDigits == <<num1_tens, num1_units, num2_tens, num2_units>>
segDisplay == <<displayMode, currentDisplayValue, isDisplayNegative, previousMode>>
segVars == <<num1_tens, num1_units, num2_tens, num2_units, displayMode,
             currentDisplayValue, isDisplayNegative, previousMode, storedNum1,
             savedNum1, LATA>>
scanVars == <<LATB, col, row, key, timeout, held, heldChanged, tapped,
              pressDetected, pressTimedOut>>
lockVars == <<system_state, current_digit, tens_digit, ones_digit, entered_code,
              emergency_active, prev_button, prev_pr1, prev_pr2, pr1_activated,
              pr2_activated, reset_counter, button_state, pr1_state, pr2_state,
              last_button, last_pr1, last_pr2>>
meterVars == <<systemState, interruptTriggered, haltCounter, LATC, ADCON0_GO,
               lumen, placement, lateInterrupt>>
boardVars == <<lockVars, meterVars>>
vars == <<variant, pc, num1, num2, operator, result, waitingForHashKey,
          validInput, LATD, errorIndication, typed, resetPressed,
          num11, num12, num21, num22, number, blink_counter, blink_state,
          num1_tens, num1_units, num2_tens, num2_units, displayMode,
          currentDisplayValue, isDisplayNegative, previousMode, storedNum1,
          savedNum1, LATA,
          LATB, col, row, key, timeout, held, heldChanged, tapped,
          pressDetected, pressTimedOut,
          system_state, current_digit, tens_digit, ones_digit, entered_code,
          emergency_active, prev_button, prev_pr1, prev_pr2, pr1_activated,
          pr2_activated, reset_counter, button_state, pr1_state, pr2_state,
          last_button, last_pr1, last_pr2,
          systemState, interruptTriggered, haltCounter, LATC, ADCON0_GO, lumen,
          placement, lateInterrupt>>

\* scanKeypad() is not running and no key is down: the column lines are
\* low (initialize() clears LATB, every call leaves it clear)
ScanIdle ==
  /\ LATB = 0
  /\ col = 0 /\ row = 0 /\ key = KEY_NONE /\ timeout = 0
  /\ held = {}
  /\ heldChanged = FALSE
  /\ tapped = <<>>
  /\ pressDetected = FALSE /\ pressTimedOut = FALSE

\* the lock box is as initialize_system() leaves it
LockIdle ==
  /\ system_state = STATE_READY
  /\ current_digit = 0 /\ tens_digit = 0 /\ ones_digit = 0 /\ entered_code = 0
  /\ emergency_active = FALSE
  /\ prev_button = 1 /\ prev_pr1 = 0 /\ prev_pr2 = 0
  /\ pr1_activated = FALSE /\ pr2_activated = FALSE
  /\ reset_counter = 0
  /\ button_state = 1 /\ pr1_state = 0 /\ pr2_state = 0
  /\ last_button = 1 /\ last_pr1 = 0 /\ last_pr2 = 0

\* the light meter does not run
MeterIdle ==
  /\ systemState = 0 /\ interruptTriggered = 0
  /\ haltCounter = 0
  /\ LATC = 0
  /\ ADCON0_GO = 1
  /\ lumen = [negative |-> FALSE, exponent |-> 0, significand |-> 0]
  /\ placement = <<>>
  /\ lateInterrupt = FALSE

BoardIdle == LockIdle /\ MeterIdle

(* ------------------------------------------------------------------ *)
(* Pure helpers                                                        *)
(* ------------------------------------------------------------------ *)
IsDigit(k) == k <= 9
IsOperator(k) == k >= OP_ADD /\ k <= OP_DIV

\* mutant of CDiv: the quotient is rounded to the nearest integer
CDiv_rounded(a, b) ==
  IF (a >= 0) = (b > 0)
    THEN ((2 * (IF a >= 0 THEN a ELSE -a)) + (IF b > 0 THEN b ELSE -b))
           \div (2 * (IF b > 0 THEN b ELSE -b))
    ELSE -(((2 * (IF a >= 0 THEN a ELSE -a)) + (IF b > 0 THEN b ELSE -b))
           \div (2 * (IF b > 0 THEN b ELSE -b)))

\* C division of ints truncates toward zero
CDiv(a, b) ==
  IF (a >= 0) = (b > 0)
    THEN (IF a >= 0 THEN a ELSE -a) \div (IF b > 0 THEN b ELSE -b)
    ELSE -((IF a >= 0 THEN a ELSE -a) \div (IF b > 0 THEN b ELSE -b))

\* (unsigned char)x | m for a one-bit mask m, and (unsigned char)x & 0x7F
OrMask(x, m) == IF (((x % 256) \div m) % 2) = 1 THEN x % 256 ELSE (x % 256) + m
And7F(x) == x % 128

\* mutant of Accumulate: the second digit is dropped
Accumulate_dropUnits(tens, units) == tens * 10

\* num = (tens * 10) + units; if (num > MAX_INPUT) num = MAX_INPUT;
Accumulate(tens, units) ==
  IF (tens * 10) + units > MAX_INPUT THEN MAX_INPUT ELSE (tens * 10) + units

\* mutant of SingleDigit: the lone digit is taken as the tens digit
SingleDigit_asTens(tens) == tens * 10

\* num = first digit, when the operand is ended by an operator key or by '#'
SingleDigit(tens) == tens

(* ------------------------------------------------------------------ *)
(* calculatorLED.c: evaluator and presenter                            *)
(* ------------------------------------------------------------------ *)
\* mutant of doOperation_LED: subtraction with the operands swapped,
\* multiplication without its overflow check
doOperation_LED_mutant(a, b, op) ==
  CASE op = OP_ADD -> a + b
    [] op = OP_SUB -> b - a
    [] op = OP_MUL -> a * b
    [] op = OP_DIV -> IF b # 0 THEN CDiv(a, b) ELSE -1
    [] OTHER -> 0

\* mutant of doOperation_LED: the product is checked against the 8-bit
\* range of the LED port instead of MAX_INPUT
doOperation_LED_clamp255(a, b, op) ==
  CASE op = OP_ADD -> a + b
    [] op = OP_SUB -> a - b
    [] op = OP_MUL -> IF a * b > 255 THEN 255 ELSE a * b
    [] op = OP_DIV -> IF b # 0 THEN CDiv(a, b) ELSE -1
    [] OTHER -> 0

\* int doOperation(int num1, int num2, int operator): the value returned
doOperation_LED(a, b, op) ==
  CASE op = OP_ADD -> a + b
    [] op = OP_SUB -> a - b
    [] op = OP_MUL -> IF a * b > MAX_INPUT THEN MAX_INPUT ELSE a * b
    [] op = OP_DIV -> IF b # 0 THEN CDiv(a, b) ELSE -1
    [] OTHER -> 0

\* doOperation calls blinkLED(0xFF, 5, 200) exactly on this branch
doOperation_LED_error(a, b, op) == op = OP_DIV /\ b = 0

\* displayBinaryWithBlink: the local `number` after the clamps
displayBinaryWithBlink_number(n) ==
  IF n < 0
    THEN (IF -n > 127 THEN 127 ELSE -n)
    ELSE (IF n > 255 THEN 255 ELSE n)

\* displayBinary(number): the value written to LATD
displayBinary(n) ==
  IF n > 255 THEN 255
  ELSE IF n < 0 THEN (IF -n > 127 THEN 127 ELSE -n) % 256
  ELSE n % 256

\* mutant of blinkPattern: the sign bit is shown by adding it to the value
\* of the previous LED state instead of or-ing it into the magnitude
blinkPattern_mutant(n, state) == IF state THEN (n + 129) % 256 ELSE And7F(n)

\* LATD inside the blink loop
blinkPattern(n, state) == IF state THEN OrMask(n, 128) ELSE And7F(n)

(* ------------------------------------------------------------------ *)
(* calculatorSevenSeg.c: evaluator and display helpers                 *)
(* ------------------------------------------------------------------ *)
\* mutant of doOperation_7Seg: the final range limit is missing
doOperation_7Seg_noLimit(a, b, op) ==
  CASE op = OP_ADD -> a + b
    [] op = OP_SUB -> a - b
    [] op = OP_MUL -> IF a * b > 99 THEN 99 ELSE IF a * b < -99 THEN -99 ELSE a * b
    [] op = OP_DIV -> IF b # 0 THEN CDiv(a, b) ELSE 0
    [] OTHER -> 0

Limit99(r) == IF r > 99 THEN 99 ELSE IF r < -99 THEN -99 ELSE r

\* int doOperation(int num1, int num2, int operator): the value returned
doOperation_7Seg(a, b, op) ==
  CASE op = OP_ADD -> Limit99(a + b)
    [] op = OP_SUB -> Limit99(a - b)
    [] op = OP_MUL -> Limit99(IF a * b > 99 THEN 99
                              ELSE IF a * b < -99 THEN -99 ELSE a * b)
    [] op = OP_DIV -> IF b # 0 THEN Limit99(CDiv(a, b)) ELSE 0
    [] OTHER -> 0

\* doOperation flashes "E0" exactly on this branch
doOperation_7Seg_error(a, b, op) == op = OP_DIV /\ b = 0

digitPatterns ==
  << SEG_A + SEG_B + SEG_C + SEG_D + SEG_E + SEG_F,
     SEG_B + SEG_C,
     SEG_A + SEG_B + SEG_G + SEG_E + SEG_D,
     SEG_A + SEG_B + SEG_C + SEG_D + SEG_G,
     SEG_F + SEG_G + SEG_B + SEG_C,
     SEG_A + SEG_F + SEG_G + SEG_C + SEG_D,
     SEG_A + SEG_F + SEG_G + SEG_C + SEG_D + SEG_E,
     SEG_A + SEG_B + SEG_C,
     SEG_A + SEG_B + SEG_C + SEG_D + SEG_E + SEG_F + SEG_G,
     SEG_A + SEG_B + SEG_C + SEG_D + SEG_F + SEG_G,
     SEG_A + SEG_D + SEG_G,
     0 >>

operatorPatterns ==
  << SEG_F + SEG_E + SEG_A + SEG_B + SEG_C,
     SEG_F + SEG_E + SEG_G + SEG_C + SEG_D,
     SEG_A + SEG_F + SEG_E + SEG_D,
     SEG_B + SEG_C + SEG_D + SEG_E + SEG_G >>

encodeDigit(digit) ==
  IF digit >= 10 /\ digit <= 13 THEN operatorPatterns[digit - 10 + 1]
  ELSE IF digit >= 0 /\ digit <= 9 THEN digitPatterns[digit + 1]
  ELSE IF digit = -1 THEN PATTERN_MINUS
  ELSE PATTERN_BLANK

\* mutant of displayDigit_LATD: the decimal point is never added
displayDigit_LATD_noPoint(digit, dp) == encodeDigit(digit)

\* displayDigit(digit, position, dp): what it leaves on the segment bus
displayDigit_LATD(digit, dp) ==
  IF dp THEN OrMask(encodeDigit(digit), SEG_DP) ELSE encodeDigit(digit)

\* ... and on the digit select lines
displayDigit_LATA(position) ==
  IF position = 0 THEN 2 ^ TENS_DIGIT_PIN ELSE 2 ^ UNITS_DIGIT_PIN

\* displayNumber(number): the magnitude it splits into digits
displayNumber_magnitude(n) ==
  IF n < 0 THEN (IF -n > 99 THEN 99 ELSE -n) ELSE (IF n > 99 THEN 99 ELSE n)

displayNumber_tens(n) == displayNumber_magnitude(n) \div 10
displayNumber_units(n) == displayNumber_magnitude(n) % 10

\* displayNumber(n) ends with displayDigit(units, 1, isNegative)
ShowNumber(n) ==
  /\ LATA' = displayDigit_LATA(1)
  /\ LATD' = displayDigit_LATD(displayNumber_units(n), n < 0)

(* ------------------------------------------------------------------ *)
(* calculatorLED.c: the session                                        *)
(* ------------------------------------------------------------------ *)
\* mutant of LED_Restart: resetCalculator() leaves the operator in place
LED_Restart_keepOperator ==
  /\ pc' = "getNum1_first"
  /\ num1' = 0 /\ num2' = 0
  /\ waitingForHashKey' = FALSE /\ validInput' = FALSE
  /\ LATD' = 0
  /\ num11' = 0 /\ num12' = 0
  /\ number' = 0 /\ blink_counter' = 0 /\ blink_state' = FALSE
  /\ errorIndication' = FALSE
  /\ typed' = <<>>
  /\ UNCHANGED <<operator, result, num21, num22>>

\* main's loop starts over (continue, or displayResult returned):
\* resetCalculator(), then getNum1() up to its first scanKeypad().
\* result, num21 and num22 are globals nothing clears.  The locals of
\* displayBinaryWithBlink are out of scope and modelled as 0.
LED_Restart ==
  /\ pc' = "getNum1_first"
  /\ num1' = 0 /\ num2' = 0 /\ operator' = 0
  /\ waitingForHashKey' = FALSE /\ validInput' = FALSE
  /\ LATD' = 0
  /\ num11' = 0 /\ num12' = 0
  /\ number' = 0 /\ blink_counter' = 0 /\ blink_state' = FALSE
  /\ errorIndication' = FALSE
  /\ typed' = <<>>
  /\ UNCHANGED <<result, num21, num22>>

\* getNum2() up to its first scanKeypad(), after main stored the operator
LED_EnterGetNum2(op) ==
  /\ operator' = op
  /\ num21' = 0 /\ num22' = 0
  /\ validInput' = FALSE
  /\ LATD' = 2
  /\ pc' = "getNum2_first"

\* getNum1() returned n1 with the global operator holding op: main stores
\* num1 and calls getOperator(), which returns a captured operator at once
\* (clearing the global, which main then sets again) or starts to scan.
LED_AfterGetNum1(n1, op) ==
  /\ num1' = n1
  /\ IF IsOperator(op)
       THEN LED_EnterGetNum2(op)
       ELSE /\ operator' = op
            /\ LATD' = 4
            /\ pc' = "getOperator_wait"
            /\ UNCHANGED <<num21, num22, validInput>>

\* getNum2() returned n2: main shows D2 and calls displayResult(), which
\* skips the blink (waitingForHashKey is set) and scans for '#'.
LED_AfterGetNum2(n2) ==
  /\ num2' = n2
  /\ waitingForHashKey' = TRUE
  /\ LATD' = 2
  /\ pc' = "displayResult_wait"

\* mutant of LED_Ignore: a key that is not accepted clears the operator
LED_Ignore_dropOperator ==
  /\ operator' = 0
  /\ UNCHANGED <<pc, num1, num2, result, waitingForHashKey, validInput,
                 LATD, errorIndication, typed, ledVars>>

\* a key the waiting code does nothing with
LED_Ignore ==
  UNCHANGED <<pc, num1, num2, operator, result, waitingForHashKey, validInput,
              LATD, errorIndication, typed, ledVars>>

getNum1_first_LED(k) ==
  /\ variant = "LED" /\ pc = "getNum1_first"
  /\ resetPressed' = (k = KEY_RESET)
  /\ UNCHANGED <<variant, segVars, scanVars, boardVars>>
  /\ \/ k = KEY_RESET /\ LED_Restart
     \/ /\ IsDigit(k)
        /\ num11' = k
        /\ validInput' = TRUE
        /\ LATD' = 1
        /\ pc' = "getNum1_second"
        /\ typed' = Append(typed, k)
        /\ UNCHANGED <<num1, num2, operator, result, waitingForHashKey,
                       errorIndication, num12, num21, num22, ledBlink>>
     \/ ~IsDigit(k) /\ k # KEY_RESET /\ LED_Ignore

getNum1_second_LED(k) ==
  /\ variant = "LED" /\ pc = "getNum1_second"
  /\ resetPressed' = (k = KEY_RESET)
  /\ UNCHANGED <<variant, segVars, scanVars, boardVars>>
  /\ \/ /\ IsDigit(k)
        /\ num12' = k
        /\ LED_AfterGetNum1(Accumulate(num11, k), operator)
        /\ typed' = Append(typed, k)
        /\ UNCHANGED <<num2, result, waitingForHashKey, errorIndication, num11,
                       ledBlink>>
     \/ /\ IsOperator(k)
        /\ LED_AfterGetNum1(SingleDigit(num11), k)
        /\ typed' = Append(typed, k)
        /\ UNCHANGED <<num2, result, waitingForHashKey, errorIndication, num11,
                       num12, ledBlink>>
     \/ /\ k = KEY_HASH
        /\ LED_AfterGetNum1(SingleDigit(num11), operator)
        /\ typed' = Append(typed, k)
        /\ UNCHANGED <<num2, result, waitingForHashKey, errorIndication, num11,
                       num12, ledBlink>>
     \/ k = KEY_RESET /\ LED_Restart
     \/ k = KEY_NONE /\ LED_Ignore

getOperator_LED(k) ==
  /\ variant = "LED" /\ pc = "getOperator_wait"
  /\ resetPressed' = (k = KEY_RESET)
  /\ UNCHANGED <<variant, segVars, scanVars, boardVars>>
  /\ \/ /\ IsOperator(k)
        /\ LED_EnterGetNum2(k)
        /\ typed' = Append(typed, k)
        /\ UNCHANGED <<num1, num2, result, waitingForHashKey, errorIndication,
                       num11, num12, ledBlink>>
     \/ k = KEY_RESET /\ LED_Restart
     \/ ~IsOperator(k) /\ k # KEY_RESET /\ LED_Ignore

getNum2_first_LED(k) ==
  /\ variant = "LED" /\ pc = "getNum2_first"
  /\ resetPressed' = (k = KEY_RESET)
  /\ UNCHANGED <<variant, segVars, scanVars, boardVars>>
  /\ \/ k = KEY_RESET /\ LED_Restart
     \/ /\ IsDigit(k)
        /\ num21' = k
        /\ validInput' = TRUE
        /\ LATD' = 2
        /\ pc' = "getNum2_second"
        /\ typed' = Append(typed, k)
        /\ UNCHANGED <<num1, num2, operator, result, waitingForHashKey,
                       errorIndication, num11, num12, num22, ledBlink>>
     \/ ~IsDigit(k) /\ k # KEY_RESET /\ LED_Ignore

getNum2_second_LED(k) ==
  /\ variant = "LED" /\ pc = "getNum2_second"
  /\ resetPressed' = (k = KEY_RESET)
  /\ UNCHANGED <<variant, segVars, scanVars, boardVars>>
  /\ \/ /\ IsDigit(k)
        /\ num22' = k
        /\ LED_AfterGetNum2(Accumulate(num21, k))
        /\ typed' = Append(typed, k)
        /\ UNCHANGED <<num1, operator, result, validInput, errorIndication,
                       num11, num12, num21, ledBlink>>
     \/ /\ k = KEY_HASH
        /\ LED_AfterGetNum2(SingleDigit(num21))
        /\ typed' = Append(typed, k)
        /\ UNCHANGED <<num1, operator, result, validInput, errorIndication,
                       num11, num12, num21, num22, ledBlink>>
     \/ k = KEY_RESET /\ LED_Restart
     \/ (k = KEY_NONE \/ IsOperator(k)) /\ LED_Ignore

\* mutant of displayResult_wait_LED: every result of -1 is taken for the
\* division by zero
displayResult_wait_LED_anyMinusOne(k) ==
  /\ variant = "LED" /\ pc = "displayResult_wait"
  /\ resetPressed' = (k = KEY_RESET)
  /\ UNCHANGED <<variant, segVars, scanVars, boardVars>>
  /\ \/ /\ k = KEY_HASH
        /\ result' = doOperation_LED(num1, num2, operator)
        /\ errorIndication' = doOperation_LED_error(num1, num2, operator)
        /\ typed' = Append(typed, k)
        /\ UNCHANGED <<num1, num2, operator, waitingForHashKey, validInput,
                       ledDigits>>
        /\ IF result' = -1
             THEN /\ LATD' = 0
                  /\ pc' = "displayResult_error"
                  /\ UNCHANGED ledBlink
             ELSE IF result' < 0
               THEN \* first pass of the blink loop, up to its scanKeypad()
                    /\ number' = displayBinaryWithBlink_number(result')
                    /\ blink_counter' = 1
                    /\ blink_state' = FALSE
                    /\ LATD' = blinkPattern(number', FALSE)
                    /\ pc' = "displayBinaryWithBlink_loop"
               ELSE /\ LATD' = displayBinary(displayBinaryWithBlink_number(result'))
                    /\ pc' = "displayResult_positive"
                    /\ UNCHANGED ledBlink
     \/ k = KEY_RESET /\ LED_Restart
     \/ k # KEY_HASH /\ k # KEY_RESET /\ LED_Ignore

\* displayResult(): the scan for '#'.  On '#' the result is computed and
\* the code runs on to the scanKeypad() of the loop that shows it.
displayResult_wait_LED(k) ==
  /\ variant = "LED" /\ pc = "displayResult_wait"
  /\ resetPressed' = (k = KEY_RESET)
  /\ UNCHANGED <<variant, segVars, scanVars, boardVars>>
  /\ \/ /\ k = KEY_HASH
        /\ result' = doOperation_LED(num1, num2, operator)
        /\ errorIndication' = doOperation_LED_error(num1, num2, operator)
        /\ typed' = Append(typed, k)
        /\ UNCHANGED <<num1, num2, operator, waitingForHashKey, validInput,
                       ledDigits>>
        /\ IF result' = -1 /\ num2 = 0
             THEN /\ LATD' = 0
                  /\ pc' = "displayResult_error"
                  /\ UNCHANGED ledBlink
             ELSE IF result' < 0
               THEN \* first pass of the blink loop, up to its scanKeypad()
                    /\ number' = displayBinaryWithBlink_number(result')
                    /\ blink_counter' = 1
                    /\ blink_state' = FALSE
                    /\ LATD' = blinkPattern(number', FALSE)
                    /\ pc' = "displayBinaryWithBlink_loop"
               ELSE /\ LATD' = displayBinary(displayBinaryWithBlink_number(result'))
                    /\ pc' = "displayResult_positive"
                    /\ UNCHANGED ledBlink
     \/ k = KEY_RESET /\ LED_Restart
     \/ k # KEY_HASH /\ k # KEY_RESET /\ LED_Ignore

\* while (1) { keyVal = scanKeypad(); if (keyVal == 0xE) ... } after a
\* division by zero
displayResult_error_LED(k) ==
  /\ variant = "LED" /\ pc = "displayResult_error"
  /\ resetPressed' = (k = KEY_RESET)
  /\ UNCHANGED <<variant, segVars, scanVars, boardVars>>
  /\ \/ k = KEY_RESET /\ LED_Restart
     \/ k # KEY_RESET /\ LED_Ignore

\* the same loop after a non-negative result
displayResult_positive_LED(k) ==
  /\ variant = "LED" /\ pc = "displayResult_positive"
  /\ resetPressed' = (k = KEY_RESET)
  /\ UNCHANGED <<variant, segVars, scanVars, boardVars>>
  /\ \/ k = KEY_RESET /\ LED_Restart
     \/ k # KEY_RESET /\ LED_Ignore

\* one pass of the blink loop of displayBinaryWithBlink
displayBinaryWithBlink_LED(k) ==
  /\ variant = "LED" /\ pc = "displayBinaryWithBlink_loop"
  /\ resetPressed' = (k = KEY_RESET)
  /\ UNCHANGED <<variant, segVars, scanVars, boardVars>>
  /\ \/ k = KEY_RESET /\ LED_Restart
     \/ /\ k # KEY_RESET
        /\ blink_counter' = IF blink_counter + 1 >= BLINK_RATE THEN 0
                            ELSE blink_counter + 1
        /\ blink_state' = IF blink_counter + 1 >= BLINK_RATE THEN ~blink_state
                          ELSE blink_state
        /\ LATD' = blinkPattern(number, blink_state')
        /\ UNCHANGED <<pc, num1, num2, operator, result, waitingForHashKey,
                       validInput, errorIndication, typed, ledDigits, number>>

(* ------------------------------------------------------------------ *)
(* calculatorSevenSeg.c: the session                                   *)
(* ------------------------------------------------------------------ *)
\* displayMode is never DISPLAY_OPERATOR (updateDisplay is not called with
\* it), so every scanKeypad() starts with displayNumber(currentDisplayValue).

\* mutant of Seg_Restart: resetCalculator() runs but the wait loop the
\* key was pressed in does not return
Seg_Restart_noReturn ==
  /\ pc' = pc
  /\ num1' = 0 /\ num2' = 0 /\ operator' = 0
  /\ waitingForHashKey' = FALSE /\ validInput' = FALSE
  /\ displayMode' = DISPLAY_RESET
  /\ currentDisplayValue' = 0
  /\ isDisplayNegative' = FALSE
  /\ previousMode' = DISPLAY_RESET
  /\ ShowNumber(0)
  /\ typed' = <<>>
  /\ UNCHANGED <<result, errorIndication, segDigits, storedNum1, savedNum1>>

\* main's loop starts over: resetCalculator(), then getNum1() up to its
\* first scanKeypad() (updateDisplay(0, DISPLAY_NUM1)).  result, num2_tens
\* and num2_units are globals nothing clears.  The locals storedNum1 and
\* savedNum1 are out of scope and modelled as 0.
Seg_Restart ==
  /\ pc' = "getNum1_first"
  /\ num1' = 0 /\ num2' = 0 /\ operator' = 0
  /\ waitingForHashKey' = FALSE /\ validInput' = FALSE
  /\ num1_tens' = 0 /\ num1_units' = 0
  /\ displayMode' = DISPLAY_NUM1
  /\ currentDisplayValue' = 0
  /\ isDisplayNegative' = FALSE
  /\ previousMode' = DISPLAY_NUM1
  /\ storedNum1' = 0 /\ savedNum1' = 0
  /\ ShowNumber(0)
  /\ errorIndication' = FALSE
  /\ typed' = <<>>
  /\ UNCHANGED <<result, num2_tens, num2_units>>

\* mutant of main_savedNum1: num1 is saved from the display value only
\* after getNum2 has started to refresh it
main_savedNum1_afterGetNum2(shownAfterGetOperator, shownAtGetNum2Entry) ==
  shownAtGetNum2Entry

\* int savedNum1 = currentDisplayValue; between getOperator() and getNum2()
main_savedNum1(shownAfterGetOperator, shownAtGetNum2Entry) ==
  shownAfterGetOperator

\* getOperator() returned op having set currentDisplayValue = storedNum1:
\* main stores the operator, saves num1 and calls getNum2(), which runs up
\* to its first scanKeypad() (updateDisplay(0, DISPLAY_NUM2)).
Seg_EnterGetNum2(op, shown) ==
  /\ operator' = op
  /\ savedNum1' = main_savedNum1(shown, 0)
  /\ storedNum1' = 0
  /\ num2_tens' = 0 /\ num2_units' = 0
  /\ validInput' = FALSE
  /\ displayMode' = DISPLAY_NUM2
  /\ currentDisplayValue' = 0
  /\ isDisplayNegative' = FALSE
  /\ previousMode' = DISPLAY_NUM2
  /\ ShowNumber(0)
  /\ pc' = "getNum2_first"

\* getNum1() returned n1 with the global operator holding op and
\* isDisplayNegative = neg: main stores num1, sets currentDisplayValue =
\* num1 and calls getOperator(), which returns a captured operator after
\* showing it (currentDisplayValue = storedNum1) or starts to scan.
Seg_AfterGetNum1(n1, op, neg) ==
  /\ num1' = n1
  /\ IF IsOperator(op)
       THEN Seg_EnterGetNum2(op, n1)
       ELSE /\ operator' = op
            /\ storedNum1' = n1
            /\ currentDisplayValue' = n1
            /\ isDisplayNegative' = neg
            /\ ShowNumber(n1)
            /\ pc' = "getOperator_wait"
            /\ UNCHANGED <<savedNum1, num2_tens, num2_units, validInput,
                           displayMode, previousMode>>

\* getNum2() returned n2 (a value other than 0xFF) with waitingForHashKey
\* = wfh and the display state given: main restores num1 from savedNum1 and
\* calls displayResult(), which flashes num2 three times if wfh is not set
\* (refreshDisplay(num2)) and then scans for '#'.
Seg_AfterGetNum2(n2, wfh, shown) ==
  /\ num2' = n2
  /\ num1' = savedNum1
  /\ waitingForHashKey' = wfh
  /\ currentDisplayValue' = IF wfh THEN shown ELSE n2
  /\ isDisplayNegative' = IF wfh THEN isDisplayNegative ELSE (n2 < 0)
  /\ ShowNumber(IF wfh THEN shown ELSE n2)
  /\ pc' = "displayResult_wait"

\* mutant of Seg_Ignore: the refresh of scanKeypad() shows 0
Seg_Ignore_showZero ==
  /\ ShowNumber(0)
  /\ currentDisplayValue' = 0
  /\ UNCHANGED <<pc, num1, num2, operator, result, waitingForHashKey, validInput,
                 errorIndication, typed, segDigits, displayMode,
                 isDisplayNegative, previousMode, storedNum1, savedNum1>>

\* a key the waiting code does nothing with: only the display refresh of
\* scanKeypad() has run
Seg_Ignore ==
  /\ ShowNumber(currentDisplayValue)
  /\ UNCHANGED <<pc, num1, num2, operator, result, waitingForHashKey, validInput,
                 errorIndication, typed, segDigits, segDisplay, storedNum1,
                 savedNum1>>

getNum1_first_7Seg(k) ==
  /\ variant = "SevenSeg" /\ pc = "getNum1_first"
  /\ resetPressed' = (k = KEY_RESET)
  /\ UNCHANGED <<variant, ledVars, scanVars, boardVars>>
  /\ \/ k = KEY_RESET /\ Seg_Restart
     \/ /\ IsDigit(k)
        /\ num1_tens' = k
        /\ validInput' = TRUE
        \* updateDisplay(currentDisplay, DISPLAY_NUM1)
        /\ displayMode' = DISPLAY_NUM1
        /\ currentDisplayValue' = k
        /\ isDisplayNegative' = FALSE
        /\ previousMode' = DISPLAY_NUM1
        /\ ShowNumber(k)
        /\ pc' = "getNum1_second"
        /\ typed' = Append(typed, k)
        /\ UNCHANGED <<num1, num2, operator, result, waitingForHashKey,
                       errorIndication, num1_units, num2_tens, num2_units,
                       storedNum1, savedNum1>>
     \/ ~IsDigit(k) /\ k # KEY_RESET /\ Seg_Ignore

getNum1_second_7Seg(k) ==
  /\ variant = "SevenSeg" /\ pc = "getNum1_second"
  /\ resetPressed' = (k = KEY_RESET)
  /\ UNCHANGED <<variant, ledVars, scanVars, boardVars>>
  /\ \/ /\ IsDigit(k)
        /\ num1_units' = k
        \* updateDisplay(num1, DISPLAY_NUM1): refreshDisplay sets the sign flag
        /\ Seg_AfterGetNum1(Accumulate(num1_tens, k), operator,
                            Accumulate(num1_tens, k) < 0)
        /\ typed' = Append(typed, k)
        /\ UNCHANGED <<num2, result, waitingForHashKey, errorIndication,
                       num1_tens>>
     \/ /\ IsOperator(k)
        /\ Seg_AfterGetNum1(SingleDigit(num1_tens), k, isDisplayNegative)
        /\ typed' = Append(typed, k)
        /\ UNCHANGED <<num2, result, waitingForHashKey, errorIndication,
                       num1_tens, num1_units>>
     \/ /\ k = KEY_HASH
        /\ Seg_AfterGetNum1(SingleDigit(num1_tens), operator, isDisplayNegative)
        /\ typed' = Append(typed, k)
        /\ UNCHANGED <<num2, result, waitingForHashKey, errorIndication,
                       num1_tens, num1_units>>
     \/ k = KEY_RESET /\ Seg_Restart
     \/ k = KEY_NONE /\ Seg_Ignore

getOperator_7Seg(k) ==
  /\ variant = "SevenSeg" /\ pc = "getOperator_wait"
  /\ resetPressed' = (k = KEY_RESET)
  /\ UNCHANGED <<variant, ledVars, scanVars, boardVars>>
  /\ \/ /\ IsOperator(k)
        /\ Seg_EnterGetNum2(k, storedNum1)
        /\ typed' = Append(typed, k)
        /\ UNCHANGED <<num1, num2, result, waitingForHashKey, errorIndication,
                       num1_tens, num1_units>>
     \/ k = KEY_RESET /\ Seg_Restart
     \/ /\ ~IsOperator(k) /\ k # KEY_RESET
        \* displayNumber(storedNum1) before the next scan
        /\ ShowNumber(storedNum1)
        /\ UNCHANGED <<pc, num1, num2, operator, result, waitingForHashKey,
                       validInput, errorIndication, typed, segDigits, segDisplay,
                       storedNum1, savedNum1>>

\* resetCalculator() inside getNum2(), which then returns 0: main compares
\* the 0 with 0xFF, does not start over, and goes on to displayResult().
Seg_ResetInGetNum2 ==
  /\ operator' = 0
  /\ validInput' = FALSE
  /\ displayMode' = DISPLAY_RESET
  /\ previousMode' = DISPLAY_RESET
  /\ Seg_AfterGetNum2(0, FALSE, 0)
  /\ typed' = Append(typed, KEY_RESET)
  /\ UNCHANGED <<result, errorIndication, segDigits, storedNum1, savedNum1>>

getNum2_first_7Seg(k) ==
  /\ variant = "SevenSeg" /\ pc = "getNum2_first"
  /\ resetPressed' = (k = KEY_RESET)
  /\ UNCHANGED <<variant, ledVars, scanVars, boardVars>>
  /\ \/ k = KEY_RESET /\ Seg_ResetInGetNum2
     \/ /\ IsDigit(k)
        /\ num2_tens' = k
        /\ validInput' = TRUE
        \* updateDisplay(currentDisplay, DISPLAY_NUM2)
        /\ displayMode' = DISPLAY_NUM2
        /\ currentDisplayValue' = k
        /\ isDisplayNegative' = FALSE
        /\ previousMode' = DISPLAY_NUM2
        /\ ShowNumber(k)
        /\ pc' = "getNum2_second"
        /\ typed' = Append(typed, k)
        /\ UNCHANGED <<num1, num2, operator, result, waitingForHashKey,
                       errorIndication, num1_tens, num1_units, num2_units,
                       storedNum1, savedNum1>>
     \/ ~IsDigit(k) /\ k # KEY_RESET /\ Seg_Ignore

getNum2_second_7Seg(k) ==
  /\ variant = "SevenSeg" /\ pc = "getNum2_second"
  /\ resetPressed' = (k = KEY_RESET)
  /\ UNCHANGED <<variant, ledVars, scanVars, boardVars>>
  /\ \/ /\ IsDigit(k)
        /\ num2_units' = k
        \* updateDisplay(num2, DISPLAY_NUM2), then waitingForHashKey = true
        /\ Seg_AfterGetNum2(Accumulate(num2_tens, k), TRUE,
                            Accumulate(num2_tens, k))
        /\ typed' = Append(typed, k)
        /\ UNCHANGED <<operator, result, validInput, errorIndication, num1_tens,
                       num1_units, num2_tens, displayMode, previousMode,
                       storedNum1, savedNum1>>
     \/ /\ k = KEY_HASH
        /\ Seg_AfterGetNum2(SingleDigit(num2_tens), TRUE, currentDisplayValue)
        /\ typed' = Append(typed, k)
        /\ UNCHANGED <<operator, result, validInput, errorIndication, segDigits,
                       displayMode, previousMode, storedNum1, savedNum1>>
     \/ k = KEY_RESET /\ Seg_ResetInGetNum2
     \/ (k = KEY_NONE \/ IsOperator(k)) /\ Seg_Ignore

\* displayResult(): the scan for '#'.  On '#' the result is computed
\* (doOperation blanks the display after its error flashes) and shown by
\* updateDisplay(result, DISPLAY_RESULT).
displayResult_wait_7Seg(k) ==
  /\ variant = "SevenSeg" /\ pc = "displayResult_wait"
  /\ resetPressed' = (k = KEY_RESET)
  /\ UNCHANGED <<variant, ledVars, scanVars, boardVars>>
  /\ \/ /\ k = KEY_HASH
        /\ result' = doOperation_7Seg(num1, num2, operator)
        /\ errorIndication' = doOperation_7Seg_error(num1, num2, operator)
        /\ displayMode' = DISPLAY_RESULT
        /\ currentDisplayValue' = result'
        /\ isDisplayNegative' = (result' < 0)
        /\ previousMode' = DISPLAY_RESULT
        /\ ShowNumber(result')
        /\ pc' = "displayResult_show"
        /\ typed' = Append(typed, k)
        /\ UNCHANGED <<num1, num2, operator, waitingForHashKey, validInput,
                       segDigits, storedNum1, savedNum1>>
     \/ k = KEY_RESET /\ Seg_Restart
     \/ k # KEY_HASH /\ k # KEY_RESET /\ Seg_Ignore

\* while (1) { keyVal = scanKeypad(); if (keyVal == 0xE) ... } showing the
\* result
displayResult_show_7Seg(k) ==
  /\ variant = "SevenSeg" /\ pc = "displayResult_show"
  /\ resetPressed' = (k = KEY_RESET)
  /\ UNCHANGED <<variant, ledVars, scanVars, boardVars>>
  /\ \/ k = KEY_RESET /\ Seg_Restart
     \/ k # KEY_RESET /\ Seg_Ignore

(* ------------------------------------------------------------------ *)
(* The session specification                                           *)
(* ------------------------------------------------------------------ *)
\* initialize(), then main's first pass up to the first scanKeypad();
\* globals without an initializer start at 0
Init ==
  /\ variant \in Variants
  /\ pc = "getNum1_first"
  /\ num1 = 0 /\ num2 = 0 /\ operator = 0 /\ result = 0
  /\ waitingForHashKey = FALSE /\ validInput = FALSE
  /\ num11 = 0 /\ num12 = 0 /\ num21 = 0 /\ num22 = 0
  /\ number = 0 /\ blink_counter = 0 /\ blink_state = FALSE
  /\ num1_tens = 0 /\ num1_units = 0 /\ num2_tens = 0 /\ num2_units = 0
  /\ displayMode = IF variant = "SevenSeg" THEN DISPLAY_NUM1 ELSE 0
  /\ previousMode = IF variant = "SevenSeg" THEN DISPLAY_NUM1 ELSE 0
  /\ currentDisplayValue = 0
  /\ isDisplayNegative = FALSE
  /\ storedNum1 = 0 /\ savedNum1 = 0
  /\ LATA = IF variant = "SevenSeg" THEN displayDigit_LATA(1) ELSE 0
  /\ LATD = IF variant = "SevenSeg"
              THEN displayDigit_LATD(displayNumber_units(0), FALSE) ELSE 0
  /\ errorIndication = FALSE
  /\ typed = <<>>
  /\ resetPressed = FALSE
  /\ ScanIdle
  /\ BoardIdle

\* one step of either program: scanKeypad() returns k
Step(k) ==
  \/ getNum1_first_LED(k)
  \/ getNum1_second_LED(k)
  \/ getOperator_LED(k)
  \/ getNum2_first_LED(k)
  \/ getNum2_second_LED(k)
  \/ displayResult_wait_LED(k)
  \/ displayResult_error_LED(k)
  \/ displayResult_positive_LED(k)
  \/ displayBinaryWithBlink_LED(k)
  \/ getNum1_first_7Seg(k)
  \/ getNum1_second_7Seg(k)
  \/ getOperator_7Seg(k)
  \/ getNum2_first_7Seg(k)
  \/ getNum2_second_7Seg(k)
  \/ displayResult_wait_7Seg(k)
  \/ displayResult_show_7Seg(k)

\* Any number of calculations, the digit keys limited to 0..MaxDigit.
Next == \E k \in KeyCodes : Step(k)

Spec == Init /\ [][Next]_vars

\* The same program with a user who does not withhold the Reset key for
\* ever: scanKeypad() returns '*' again and again.
SpecLive == Init /\ [][Next]_vars /\ WF_vars(Step(KEY_RESET))

\* The first calculation after power-on with every digit key 0..9, for a
\* user who does not press '*': all operands 0..99 and all operators.
FirstCycleKeys == AllDigits \cup OperatorKeys \cup {KEY_HASH, KEY_NONE}

NextFirstCycle == \E k \in FirstCycleKeys : Step(k)

SpecFirstCycle == Init /\ [][NextFirstCycle]_vars

\* control positions inside a counted loop: statement s of iteration n
BlinkPc(s, n) == s \o "_" \o ToString(n)

(* ------------------------------------------------------------------ *)
(* calculatorSevenSeg.c: the display refresh, statement by statement   *)
(* ------------------------------------------------------------------ *)
\* 'for (int i = 0; i < 30; i++)' of refreshDisplay()
RefreshCount == 30

\* 'for (int i = 0; i < 5; i++)' of doOperation()'s division by zero
ErrorFlashes == 5

\* the wait loops whose scanKeypad() starts with
\* displayNumber(currentDisplayValue)
ScanSites ==
  {"getNum1_first", "getNum1_second", "getOperator_wait",
   "displayResult_wait", "displayResult_show"}

\* where the program continues when an updateDisplay() returns: the call
\* of getNum1() in main, or a wait loop
ReturnSites ==
  {"getNum1", "getNum1_first", "getNum1_second", "getOperator_wait",
   "displayResult_show"}

\* displayNumber() number n of the refreshDisplay() loop of the
\* updateDisplay() that returns to site
RefreshAt(site, n) == site \o "_" \o ToString(n)

RefreshCallers ==
  {RefreshAt(site, n) : site \in ReturnSites, n \in 0..(RefreshCount - 1)}

\* the calls of displayNumber(): initialize(), scanKeypad() in a wait loop,
\* refreshDisplay()
DisplayCallers == ScanSites \cup {"initialize"} \cup RefreshCallers

\* statement stmt of displayNumber() called from c
DisplayPc(stmt, c) == stmt \o "_in_" \o c

\* updateDisplay() after its switch: 'previousMode = mode;' is next
UpdateReturn(site) == "updateDisplay_return_to_" \o site

\* control positions where displayNumber() runs or has run:
\* the three statements of displayDigit() for the tens digit, then for the
\* units digit, and the positions between two calls
DisplayStatements ==
  {"displayDigit_tens_off", "displayDigit_tens_pattern",
   "displayDigit_tens_select", "displayDigit_units_off",
   "displayDigit_units_pattern", "displayDigit_units_select"}

DisplayPcs ==
  {DisplayPc(stmt, c) : stmt \in DisplayStatements, c \in DisplayCallers}
    \cup ScanSites \cup {UpdateReturn(site) : site \in ReturnSites}
    \cup {"resetCalculator", "getNum1"}

\* the control positions as a table, by statement and caller
DisplayPcTable ==
  [stmt \in DisplayStatements |-> [c \in DisplayCallers |-> DisplayPc(stmt, c)]]

\* the callers whose displayNumber() is at statement stmt, if any
DisplayAt(stmt) == {c \in DisplayCallers : pc = DisplayPcTable[stmt][c]}

\* where displayNumber() called from c returns to: the wait loop, main's
\* resetCalculator() after initialize(), or the next pass of refreshDisplay's
\* loop and after the last one the end of updateDisplay()
displayNumber_return ==
  [c \in DisplayCallers |->
     IF c \in ScanSites THEN c
     ELSE IF c = "initialize" THEN "resetCalculator"
     ELSE LET at == CHOOSE sn \in ReturnSites \X (0..(RefreshCount - 1)) :
                      c = RefreshAt(sn[1], sn[2])
          IN IF at[2] + 1 < RefreshCount
               THEN DisplayPc("displayDigit_tens_off",
                              RefreshAt(at[1], at[2] + 1))
               ELSE UpdateReturn(at[1])]

\* the operands typed before displayResult() waits for '#': both with two
\* digits, one of them 0 or both equal, so that the results cover -99..99,
\* the clamped products and sums, and division by zero
DisplayOperands ==
  {ab \in (0..MAX_INPUT) \X (0..MAX_INPUT) :
     ab[1] = 0 \/ ab[2] = 0 \/ ab[1] = ab[2]}

\* the rest of the program state while the display code runs
DisplayFrame ==
  <<variant, num1, num2, operator, waitingForHashKey, validInput,
    errorIndication, typed, resetPressed, ledVars, segDigits, storedNum1,
    savedNum1, scanVars, boardVars>>

\* displayResult() scanning for '#' after the keys d d op d d: getNum2()
\* has refreshed num2 and set waitingForHashKey, main has restored num1
InitDisplay ==
  \E ab \in DisplayOperands, op \in OperatorKeys :
    /\ variant = "SevenSeg"
    /\ pc = "displayResult_wait"
    /\ num1 = ab[1] /\ num2 = ab[2] /\ operator = op /\ result = 0
    /\ waitingForHashKey = TRUE /\ validInput = TRUE
    /\ num11 = 0 /\ num12 = 0 /\ num21 = 0 /\ num22 = 0
    /\ number = 0 /\ blink_counter = 0 /\ blink_state = FALSE
    /\ num1_tens = ab[1] \div 10 /\ num1_units = ab[1] % 10
    /\ num2_tens = ab[2] \div 10 /\ num2_units = ab[2] % 10
    /\ displayMode = DISPLAY_NUM2
    /\ previousMode = DISPLAY_NUM2
    /\ currentDisplayValue = ab[2]
    /\ isDisplayNegative = FALSE
    /\ storedNum1 = 0 /\ savedNum1 = ab[1]
    /\ LATA = displayDigit_LATA(1)
    /\ LATD = displayDigit_LATD(displayNumber_units(ab[2]), FALSE)
    /\ errorIndication = FALSE
    /\ typed = <<ab[1] \div 10, ab[1] % 10, op, ab[2] \div 10, ab[2] % 10>>
    /\ resetPressed = FALSE
    /\ ScanIdle
    /\ BoardIdle

\* displayResult(): scanKeypad() returns '#' and doOperation(num1, num2,
\* operator) is called; for a division by zero its error loop starts
displayResult_hash ==
  /\ pc = "displayResult_wait"
  /\ typed' = Append(typed, KEY_HASH)
  /\ errorIndication' = doOperation_7Seg_error(num1, num2, operator)
  /\ pc' = IF doOperation_7Seg_error(num1, num2, operator)
             THEN BlinkPc("doOperation_E_select", 0)
             ELSE "doOperation_return"
  /\ UNCHANGED <<variant, num1, num2, operator, result, waitingForHashKey,
                 validInput, resetPressed, LATA, LATD, ledVars, segVars,
                 scanVars, boardVars>>

\* the pass of the error loop the program is in at statement s, if any
ErrorFlashAt(s) == {n \in 0..(ErrorFlashes - 1) : pc = BlinkPc(s, n)}

\* LATA = (1 << TENS_DIGIT_PIN);
doOperation_E_select ==
  \E n \in ErrorFlashAt("doOperation_E_select") :
    /\ LATA' = 2 ^ TENS_DIGIT_PIN
    /\ pc' = BlinkPc("doOperation_E_pattern", n)
    /\ UNCHANGED <<result, LATD, segDisplay, DisplayFrame>>

\* LATD = PATTERN_E;
doOperation_E_pattern ==
  \E n \in ErrorFlashAt("doOperation_E_pattern") :
    /\ LATD' = PATTERN_E
    /\ pc' = BlinkPc("doOperation_0_select", n)
    /\ UNCHANGED <<result, LATA, segDisplay, DisplayFrame>>

\* LATA = (1 << UNITS_DIGIT_PIN);
doOperation_0_select ==
  \E n \in ErrorFlashAt("doOperation_0_select") :
    /\ LATA' = 2 ^ UNITS_DIGIT_PIN
    /\ pc' = BlinkPc("doOperation_0_pattern", n)
    /\ UNCHANGED <<result, LATD, segDisplay, DisplayFrame>>

\* LATD = digitPatterns[0];
doOperation_0_pattern ==
  \E n \in ErrorFlashAt("doOperation_0_pattern") :
    /\ LATD' = digitPatterns[1]
    /\ pc' = BlinkPc("doOperation_off_select", n)
    /\ UNCHANGED <<result, LATA, segDisplay, DisplayFrame>>

\* LATA = 0x00;
doOperation_off_select ==
  \E n \in ErrorFlashAt("doOperation_off_select") :
    /\ LATA' = 0
    /\ pc' = BlinkPc("doOperation_off_segments", n)
    /\ UNCHANGED <<result, LATD, segDisplay, DisplayFrame>>

\* LATD = 0x00; i++: the next pass, or after the last one 'return 0;'
doOperation_off_segments ==
  \E n \in ErrorFlashAt("doOperation_off_segments") :
    /\ LATD' = 0
    /\ pc' = IF n + 1 < ErrorFlashes
               THEN BlinkPc("doOperation_E_select", n + 1)
               ELSE "doOperation_return"
    /\ UNCHANGED <<result, LATA, segDisplay, DisplayFrame>>

\* displayResult(): result = doOperation(...); updateDisplay(result,
\* DISPLAY_RESULT) sets displayMode and calls refreshDisplay(result), which
\* stores the value and the sign and starts its loop of displayNumber(result)
updateDisplay_result ==
  /\ pc = "doOperation_return"
  /\ result' = doOperation_7Seg(num1, num2, operator)
  /\ displayMode' = DISPLAY_RESULT
  /\ currentDisplayValue' = result'
  /\ isDisplayNegative' = (result' < 0)
  /\ pc' = DisplayPc("displayDigit_tens_off", RefreshAt("displayResult_show", 0))
  /\ UNCHANGED <<previousMode, LATA, LATD, DisplayFrame>>

\* updateDisplay(): 'previousMode = mode;' after the switch, and the return
\* to the caller; getNum1() returning after its second digit hands num1 to
\* main and to getOperator(), which keeps it in storedNum1
updateDisplay_return ==
  \E site \in ReturnSites :
    /\ pc = UpdateReturn(site)
    /\ previousMode' = displayMode
    /\ storedNum1' = IF site = "getOperator_wait" THEN num1 ELSE storedNum1
    /\ pc' = site
    /\ UNCHANGED <<variant, num1, num2, operator, result, waitingForHashKey,
                   validInput, errorIndication, typed, resetPressed, LATA,
                   LATD, ledVars, segDigits, displayMode, currentDisplayValue,
                   isDisplayNegative, savedNum1, scanVars, boardVars>>

\* scanKeypad() in a wait loop found no key and is called again: its
\* displayNumber(currentDisplayValue)
refreshDisplay_again ==
  /\ pc \in ScanSites
  /\ displayMode \in {DISPLAY_NUM1, DISPLAY_NUM2, DISPLAY_RESULT, DISPLAY_RESET}
  /\ pc' = DisplayPc("displayDigit_tens_off", pc)
  /\ UNCHANGED <<result, LATA, LATD, segDisplay, DisplayFrame>>

\* mutant of displayDigit_off: the digit stays selected
displayDigit_off_staysSelected ==
  \/ \E c \in DisplayAt("displayDigit_tens_off") :
       /\ pc' = DisplayPc("displayDigit_tens_pattern", c)
       /\ UNCHANGED <<result, LATA, LATD, segDisplay, DisplayFrame>>
  \/ \E c \in DisplayAt("displayDigit_units_off") :
       /\ pc' = DisplayPc("displayDigit_units_pattern", c)
       /\ UNCHANGED <<result, LATA, LATD, segDisplay, DisplayFrame>>

\* LATA = 0x00;
displayDigit_off ==
  \/ \E c \in DisplayAt("displayDigit_tens_off") :
       /\ LATA' = 0
       /\ pc' = DisplayPc("displayDigit_tens_pattern", c)
       /\ UNCHANGED <<result, LATD, segDisplay, DisplayFrame>>
  \/ \E c \in DisplayAt("displayDigit_units_off") :
       /\ LATA' = 0
       /\ pc' = DisplayPc("displayDigit_units_pattern", c)
       /\ UNCHANGED <<result, LATD, segDisplay, DisplayFrame>>

\* LATD = pattern; for displayDigit(tens, 0, false) and
\* displayDigit(units, 1, isNegative)
displayDigit_pattern ==
  \/ \E c \in DisplayAt("displayDigit_tens_pattern") :
       /\ LATD' = displayDigit_LATD(displayNumber_tens(currentDisplayValue),
                                    FALSE)
       /\ pc' = DisplayPc("displayDigit_tens_select", c)
       /\ UNCHANGED <<result, LATA, segDisplay, DisplayFrame>>
  \/ \E c \in DisplayAt("displayDigit_units_pattern") :
       /\ LATD' = displayDigit_LATD(displayNumber_units(currentDisplayValue),
                                    currentDisplayValue < 0)
       /\ pc' = DisplayPc("displayDigit_units_select", c)
       /\ UNCHANGED <<result, LATA, segDisplay, DisplayFrame>>

\* LATA = (1 << TENS_DIGIT_PIN); or LATA = (1 << UNITS_DIGIT_PIN); after
\* the units digit displayNumber() returns
displayDigit_select ==
  \/ \E c \in DisplayAt("displayDigit_tens_select") :
       /\ LATA' = displayDigit_LATA(0)
       /\ pc' = DisplayPc("displayDigit_units_off", c)
       /\ UNCHANGED <<result, LATD, segDisplay, DisplayFrame>>
  \/ \E c \in DisplayAt("displayDigit_units_select") :
       /\ LATA' = displayDigit_LATA(1)
       /\ pc' = displayNumber_return[c]
       /\ UNCHANGED <<result, LATD, segDisplay, DisplayFrame>>

NextDisplay ==
  \/ displayResult_hash
  \/ doOperation_E_select
  \/ doOperation_E_pattern
  \/ doOperation_0_select
  \/ doOperation_0_pattern
  \/ doOperation_off_select
  \/ doOperation_off_segments
  \/ updateDisplay_result
  \/ updateDisplay_return
  \/ refreshDisplay_again
  \/ displayDigit_off
  \/ displayDigit_pattern
  \/ displayDigit_select

SpecDisplay == InitDisplay /\ [][NextDisplay]_vars

(* ------------------------------------------------------------------ *)
(* main(), statement by statement                                      *)
(* ------------------------------------------------------------------ *)
\* A state is main between two of its statements; a call of getNum1,
\* getOperator, getNum2 or displayResult is one step, with every way the
\* user's keys can make it return.  Digits typed are 0..MaxDigit.

\* resetCalculator()
Main_reset ==
  /\ num1' = 0 /\ num2' = 0 /\ operator' = 0
  /\ waitingForHashKey' = FALSE /\ validInput' = FALSE

\* what the statement leaves on the display: the LED port written last
\* (LED), or the mode and value of the last updateDisplay / displayNumber
Main_display(ledPort, mode, value) ==
  IF variant = "LED"
    THEN LATD' = ledPort /\ UNCHANGED <<LATA, segDisplay>>
    ELSE /\ displayMode' = mode /\ previousMode' = mode
         /\ currentDisplayValue' = value
         /\ isDisplayNegative' = (value < 0)
         /\ ShowNumber(value)

\* the digit globals of operand 1 and of operand 2
Main_digits1(t, u) ==
  IF variant = "LED"
    THEN num11' = t /\ num12' = u /\ UNCHANGED <<num1_tens, num1_units>>
    ELSE num1_tens' = t /\ num1_units' = u /\ UNCHANGED <<num11, num12>>

Main_digits2(t, u) ==
  IF variant = "LED"
    THEN num21' = t /\ num22' = u /\ UNCHANGED <<num2_tens, num2_units>>
    ELSE num2_tens' = t /\ num2_units' = u /\ UNCHANGED <<num21, num22>>

\* the value getNum2() returns after a Reset
getNum2_resetValue(v) == IF v = "LED" THEN 255 ELSE 0

InitMain ==
  /\ variant \in Variants
  /\ pc = "main_resetCalculator"
  /\ num1 = 0 /\ num2 = 0 /\ operator = 0 /\ result = 0
  /\ waitingForHashKey = FALSE /\ validInput = FALSE
  /\ num11 = 0 /\ num12 = 0 /\ num21 = 0 /\ num22 = 0
  /\ number = 0 /\ blink_counter = 0 /\ blink_state = FALSE
  /\ num1_tens = 0 /\ num1_units = 0 /\ num2_tens = 0 /\ num2_units = 0
  /\ displayMode = DISPLAY_RESET
  /\ previousMode = DISPLAY_RESET
  /\ currentDisplayValue = 0
  /\ isDisplayNegative = FALSE
  /\ storedNum1 = 0 /\ savedNum1 = 0
  /\ LATA = IF variant = "SevenSeg" THEN displayDigit_LATA(1) ELSE 0
  /\ LATD = IF variant = "SevenSeg"
              THEN displayDigit_LATD(displayNumber_units(0), FALSE) ELSE 0
  /\ errorIndication = FALSE
  /\ typed = <<>>
  /\ resetPressed = FALSE
  /\ ScanIdle
  /\ BoardIdle

\* resetCalculator(); at the top of the loop
main_resetCalculator ==
  /\ pc = "main_resetCalculator"
  /\ Main_reset
  /\ Main_display(0, DISPLAY_RESET, 0)
  /\ savedNum1' = 0
  /\ errorIndication' = FALSE
  /\ resetPressed' = FALSE
  /\ pc' = "main_getNum1"
  /\ UNCHANGED <<scanVars, boardVars, variant, result, typed, ledDigits, ledBlink, segDigits,
                 storedNum1>>

\* num1 = getNum1(); (and LATD = 0x01; in the LED variant)
main_getNum1 ==
  /\ pc = "main_getNum1"
  /\ pc' = "main_testNum1"
  /\ UNCHANGED <<scanVars, boardVars, variant, num2, result, waitingForHashKey, errorIndication,
                 typed, num21, num22, num2_tens, num2_units, ledBlink,
                 storedNum1, savedNum1>>
  /\ \/ \* '*' before or after the first digit: resetCalculator(), return 0xFF
        \E t \in DigitKeys :
          /\ Main_digits1(t, 0)
          /\ num1' = 255
          /\ operator' = 0 /\ validInput' = FALSE
          /\ Main_display(1, DISPLAY_RESET, 0)
          /\ resetPressed' = TRUE
     \/ \* two digits
        \E t \in DigitKeys, u \in DigitKeys :
          /\ Main_digits1(t, u)
          /\ num1' = Accumulate(t, u)
          /\ validInput' = TRUE
          /\ Main_display(1, DISPLAY_NUM1, Accumulate(t, u))
          /\ resetPressed' = FALSE
          /\ UNCHANGED operator
     \/ \* one digit, then an operator key
        \E t \in DigitKeys, op \in OperatorKeys :
          /\ Main_digits1(t, 0)
          /\ num1' = SingleDigit(t)
          /\ operator' = op
          /\ validInput' = TRUE
          /\ Main_display(1, DISPLAY_NUM1, t)
          /\ resetPressed' = FALSE
     \/ \* one digit, then '#'
        \E t \in DigitKeys :
          /\ Main_digits1(t, 0)
          /\ num1' = SingleDigit(t)
          /\ validInput' = TRUE
          /\ Main_display(1, DISPLAY_NUM1, t)
          /\ resetPressed' = FALSE
          /\ UNCHANGED operator

\* mutant of main_testNum1: the sentinel tested for is 0
main_testNum1_zeroSentinel ==
  /\ pc = "main_testNum1"
  /\ pc' = IF num1 = 0 THEN "main_resetCalculator" ELSE "main_getOperator"
  /\ currentDisplayValue' =
       IF variant = "SevenSeg" /\ num1 # 0 THEN num1 ELSE currentDisplayValue
  /\ UNCHANGED <<scanVars, boardVars, variant, num1, num2, operator, result, waitingForHashKey,
                 validInput, LATD, LATA, errorIndication, typed, resetPressed,
                 ledVars, segDigits, displayMode, isDisplayNegative,
                 previousMode, storedNum1, savedNum1>>

\* if (num1 == 0xFF) continue; (and currentDisplayValue = num1; in the
\* 7-segment variant)
main_testNum1 ==
  /\ pc = "main_testNum1"
  /\ pc' = IF num1 = 255 THEN "main_resetCalculator" ELSE "main_getOperator"
  /\ currentDisplayValue' =
       IF variant = "SevenSeg" /\ num1 # 255 THEN num1 ELSE currentDisplayValue
  /\ UNCHANGED <<scanVars, boardVars, variant, num1, num2, operator, result, waitingForHashKey,
                 validInput, LATD, LATA, errorIndication, typed, resetPressed,
                 ledVars, segDigits, displayMode, isDisplayNegative,
                 previousMode, storedNum1, savedNum1>>

\* operator = getOperator(); (and LATD = 0x04; in the LED variant)
main_getOperator ==
  /\ pc = "main_getOperator"
  /\ pc' = "main_testOperator"
  /\ UNCHANGED <<scanVars, boardVars, variant, num2, result, waitingForHashKey, errorIndication,
                 typed, ledVars, segDigits, savedNum1>>
  /\ storedNum1' = IF variant = "SevenSeg" THEN num1 ELSE storedNum1
  /\ \/ \* an operator captured by getNum1 is returned without a scan;
        \* otherwise an operator key is scanned
        /\ \E op \in OperatorKeys :
             /\ IsOperator(operator) => op = operator
             /\ operator' = op
        /\ resetPressed' = FALSE
        /\ UNCHANGED <<num1, validInput, displayMode, previousMode,
                       isDisplayNegative>>
        /\ IF variant = "LED"
             THEN LATD' = 4 /\ UNCHANGED <<LATA, currentDisplayValue>>
             ELSE currentDisplayValue' = num1 /\ ShowNumber(num1)
     \/ \* '*' while scanning: resetCalculator(), return 0
        /\ ~IsOperator(operator)
        /\ operator' = 0
        /\ num1' = 0 /\ validInput' = FALSE
        /\ resetPressed' = TRUE
        /\ IF variant = "LED"
             THEN LATD' = 4 /\ UNCHANGED <<LATA, segDisplay>>
             ELSE Main_display(0, DISPLAY_RESET, 0)

\* if (operator == 0) continue; (and int savedNum1 = currentDisplayValue;
\* in the 7-segment variant)
main_testOperator ==
  /\ pc = "main_testOperator"
  /\ pc' = IF operator = 0 THEN "main_resetCalculator" ELSE "main_getNum2"
  /\ savedNum1' =
       IF variant = "SevenSeg" /\ operator # 0
         THEN main_savedNum1(currentDisplayValue, 0) ELSE savedNum1
  /\ UNCHANGED <<scanVars, boardVars, variant, num1, num2, operator, result, waitingForHashKey,
                 validInput, LATD, LATA, errorIndication, typed, resetPressed,
                 ledVars, segDigits, segDisplay, storedNum1>>

\* num2 = getNum2(); (and LATD = 0x02; in the LED variant)
main_getNum2 ==
  /\ pc = "main_getNum2"
  /\ pc' = "main_testNum2"
  /\ UNCHANGED <<scanVars, boardVars, variant, result, errorIndication, typed, num11, num12,
                 num1_tens, num1_units, ledBlink, storedNum1, savedNum1>>
  /\ \/ \* '*' before or after the first digit: resetCalculator(), return
        \E t \in DigitKeys :
          /\ Main_digits2(t, 0)
          /\ num2' = getNum2_resetValue(variant)
          /\ num1' = 0 /\ operator' = 0
          /\ waitingForHashKey' = FALSE /\ validInput' = FALSE
          /\ Main_display(2, DISPLAY_RESET, 0)
          /\ resetPressed' = TRUE
     \/ \* two digits
        \E t \in DigitKeys, u \in DigitKeys :
          /\ Main_digits2(t, u)
          /\ num2' = Accumulate(t, u)
          /\ waitingForHashKey' = TRUE /\ validInput' = TRUE
          /\ Main_display(2, DISPLAY_NUM2, Accumulate(t, u))
          /\ resetPressed' = FALSE
          /\ UNCHANGED <<num1, operator>>
     \/ \* one digit, then '#'
        \E t \in DigitKeys :
          /\ Main_digits2(t, 0)
          /\ num2' = SingleDigit(t)
          /\ waitingForHashKey' = TRUE /\ validInput' = TRUE
          /\ Main_display(2, DISPLAY_NUM2, t)
          /\ resetPressed' = FALSE
          /\ UNCHANGED <<num1, operator>>

\* if (num2 == 0xFF) continue; (and num1 = savedNum1; in the 7-segment
\* variant)
main_testNum2 ==
  /\ pc = "main_testNum2"
  /\ pc' = IF num2 = 255 THEN "main_resetCalculator" ELSE "main_displayResult"
  /\ num1' = IF variant = "SevenSeg" /\ num2 # 255 THEN savedNum1 ELSE num1
  /\ UNCHANGED <<scanVars, boardVars, variant, num2, operator, result, waitingForHashKey,
                 validInput, LATD, LATA, errorIndication, typed, resetPressed,
                 ledVars, segVars>>

\* displayResult(); it returns after resetCalculator(), on a '*' pressed
\* before '#' (nothing evaluated) or while the result is shown
main_displayResult ==
  /\ pc = "main_displayResult"
  /\ pc' = "main_resetCalculator"
  /\ Main_reset
  /\ Main_display(0, DISPLAY_RESET, 0)
  /\ resetPressed' = TRUE
  /\ \/ UNCHANGED <<result, errorIndication>>
     \/ /\ result' = IF variant = "LED" THEN doOperation_LED(num1, num2, operator)
                     ELSE doOperation_7Seg(num1, num2, operator)
        /\ errorIndication' =
             IF variant = "LED" THEN doOperation_LED_error(num1, num2, operator)
             ELSE doOperation_7Seg_error(num1, num2, operator)
  /\ UNCHANGED <<scanVars, boardVars, variant, typed, ledVars, segDigits, storedNum1, savedNum1>>

NextMain ==
  \/ main_resetCalculator
  \/ main_getNum1
  \/ main_testNum1
  \/ main_getOperator
  \/ main_testOperator
  \/ main_getNum2
  \/ main_testNum2
  \/ main_displayResult

SpecMain == InitMain /\ [][NextMain]_vars

(* ------------------------------------------------------------------ *)
(* Session states of the specification, read off the control position  *)
(* ------------------------------------------------------------------ *)
ShowStates ==
  {"displayResult_error", "displayResult_positive",
   "displayBinaryWithBlink_loop", "displayResult_show"}

ShowingResult == pc \in ShowStates
AwaitingConfirm == pc = "displayResult_wait"

\* the display presents a number as the result
NumberPresented ==
  \/ variant = "LED" /\ pc \in {"displayResult_positive", "displayBinaryWithBlink_loop"}
  \/ variant = "SevenSeg" /\ pc = "displayResult_show" /\ displayMode = DISPLAY_RESULT

\* the value the presenter was handed
doOperation(v, a, b, op) ==
  IF v = "LED" THEN doOperation_LED(a, b, op) ELSE doOperation_7Seg(a, b, op)

\* The keys of one calculation, as the user typed them: operand 1 is one
\* digit or two, optionally ended by '#'; then the operator; operand 2 is
\* two digits, or one digit ended by '#'; then '#'.
NoResetTyped == \A i \in 1..Len(typed) : typed[i] # KEY_RESET
Typed1Len == IF Len(typed) >= 2 /\ IsDigit(typed[2]) THEN 2 ELSE 1
TypedOpAt ==
  IF Len(typed) > Typed1Len /\ typed[Typed1Len + 1] = KEY_HASH
    THEN Typed1Len + 2 ELSE Typed1Len + 1
Typed2Len ==
  IF Len(typed) >= TypedOpAt + 2 /\ IsDigit(typed[TypedOpAt + 2]) THEN 2 ELSE 1
TypedValue(from, len) ==
  IF len = 2 THEN 10 * typed[from] + typed[from + 1] ELSE typed[from]
TypedOperand1 == TypedValue(1, Typed1Len)
TypedOperator == typed[TypedOpAt]
TypedOperand2 == TypedValue(TypedOpAt + 1, Typed2Len)

\* the scenario "digit, operator, digit, '#'" and the same with one more '#'
TypedDigitOpDigitHash ==
  /\ Len(typed) >= 4
  /\ IsDigit(typed[1]) /\ IsOperator(typed[2]) /\ IsDigit(typed[3])
  /\ typed[4] = KEY_HASH

\* what the scenario's operands evaluate to (single digits: no saturation)
ScenarioValue(a, b, op) ==
  CASE op = OP_ADD -> a + b
    [] op = OP_SUB -> a - b
    [] op = OP_MUL -> a * b
    [] op = OP_DIV -> a \div b

(* ------------------------------------------------------------------ *)
(* Claims                                                              *)
(* ------------------------------------------------------------------ *)

\* C1: whenever the key just processed was Reset ('*'), whatever wait point
\* it was pressed at, the program is again inside getNum1 waiting for the
\* first digit of operand 1, with no further key press.
C1_ResetReturnsToOperand1 == resetPressed => pc = "getNum1_first"

\* C2: after a Reset no data of the abandoned cycle is left: num1, num2
\* and operator are all 0, so what follows depends only on keys pressed
\* after the Reset.
C2_NoResidueAfterReset ==
  resetPressed => (num1 = 0 /\ num2 = 0 /\ operator = 0)

\* C3 as stated: after digit, operator, digit, '#', each pressed once, the
\* calculator is showing the result; no second '#' is needed.
C3_OneConfirmShowsResult ==
  (TypedDigitOpDigitHash /\ Len(typed) = 4) => ShowingResult

\* C3 as amended: after digit d1, operator op, digit d2, '#' the '#' has
\* only ended operand 2: the calculator awaits Confirm with num1 = d1,
\* num2 = d2 and the operator stored; after one more '#' it shows the
\* value of d1 op d2 (for a division by 0: the error indication was played).
C3_SecondConfirmShowsResult ==
  /\ (TypedDigitOpDigitHash /\ Len(typed) = 4) =>
        /\ AwaitingConfirm
        /\ num1 = typed[1] /\ num2 = typed[3] /\ operator = typed[2]
  /\ (TypedDigitOpDigitHash /\ Len(typed) = 5) =>
        /\ typed[5] = KEY_HASH
        /\ ShowingResult
        /\ IF typed[2] = OP_DIV /\ typed[3] = 0
             THEN errorIndication
             ELSE /\ result = ScenarioValue(typed[1], typed[3], typed[2])
                  /\ ~errorIndication
                  /\ NumberPresented

\* 7, A, 3, '#', '#' on the LED variant: 10 shown, steady
C3_Witness ==
  /\ variant = "LED"
  /\ typed = <<7, OP_ADD, 3, KEY_HASH, KEY_HASH>>
  /\ pc = "displayResult_positive"
  /\ result = 10 /\ LATD = 10

\* C4: in every calculation completed without a Reset, the result equals
\* doOperation applied to the operand-1 value, the operand-2 value and the
\* operator typed in that calculation, and num1, num2 and operator still
\* hold exactly those when the result is shown.
C4_ResultOfTypedOperands ==
  (ShowingResult /\ NoResetTyped) =>
     /\ num1 = TypedOperand1
     /\ num2 = TypedOperand2
     /\ operator = TypedOperator
     /\ result = doOperation(variant, TypedOperand1, TypedOperand2, TypedOperator)

\* 12 - 21 on the 7-segment variant
C4_Witness ==
  /\ variant = "SevenSeg"
  /\ pc = "displayResult_show"
  /\ typed = <<1, 2, OP_SUB, 2, 1, KEY_HASH>>
  /\ num1 = 12 /\ num2 = 21 /\ result = -9

\* C5: two digits d1, d2 typed one after the other as operand 1 or as
\* operand 2 give the operand 10*d1 + d2, clamped to 99, in both variants.
C5_TwoDigitOperand ==
  /\ (pc \in {"getOperator_wait", "displayResult_wait"} /\ NoResetTyped
        /\ Typed1Len = 2) =>
       num1 = (IF 10 * typed[1] + typed[2] > 99 THEN 99
               ELSE 10 * typed[1] + typed[2])
  /\ (pc = "displayResult_wait" /\ NoResetTyped /\ Typed2Len = 2) =>
       num2 = (IF 10 * typed[TypedOpAt + 1] + typed[TypedOpAt + 2] > 99 THEN 99
               ELSE 10 * typed[TypedOpAt + 1] + typed[TypedOpAt + 2])

\* 99 and 09 typed as the two operands
C5_Witness ==
  /\ pc = "displayResult_wait"
  /\ typed = <<9, 9, OP_MUL, 0, 9>>
  /\ num1 = 99 /\ num2 = 9

\* C6: a division by 0 plays the error indication and leaves the caller
\* (displayResult, which sees result and num2) with an outcome that no
\* numeric evaluation with the same num2 produces.
C6_DivByZeroSignalled ==
  (ShowingResult /\ NoResetTyped /\ operator = OP_DIV /\ num2 = 0) =>
     /\ errorIndication
     /\ \A a \in 0..MAX_INPUT : \A op \in {OP_ADD, OP_SUB, OP_MUL} :
          doOperation(variant, a, 0, op) # result

\* C7: when the division was by 0, no number is presented as the result.
C7_NoNumberAfterDivByZero ==
  (ShowingResult /\ errorIndication) => ~NumberPresented

\* C8: for Add, Sub and Mul the value evaluated lies within the variant's
\* bounds and is the value presented: within -99..99 and equal to the
\* displayed value on the 7-segment variant; on the LED variant at most 255
\* and equal to the LED pattern when non-negative, of magnitude at most 127
\* and equal to the blinking pattern's magnitude when negative.
C8_WithinClampBounds ==
  (ShowingResult /\ NoResetTyped /\ operator \in {OP_ADD, OP_SUB, OP_MUL}) =>
     /\ variant = "SevenSeg" =>
          (result >= -99 /\ result <= 99 /\ currentDisplayValue = result)
     /\ (variant = "LED" /\ result >= 0) => (result <= 255 /\ LATD = result)
     /\ (variant = "LED" /\ result < 0) => (-result <= 127 /\ number = -result)

\* 99 + 99 on the 7-segment variant is shown as 99
C8_Witness ==
  /\ variant = "SevenSeg"
  /\ pc = "displayResult_show"
  /\ num1 = 99 /\ num2 = 99 /\ operator = OP_ADD
  /\ result = 99 /\ currentDisplayValue = 99

\* C9: the result computed lies in -99..99 in both variants.
C9_ResultWithin99 ==
  ShowingResult => (result >= -99 /\ result <= 99)

\* C10: in the blink loop of the LED variant the low 7 bits of the port
\* are the magnitude of the (negative) result and bit 7 follows the blink
\* state; a step with Reset ends the display, a step with any other key
\* keeps the loop, the result and the low 7 bits, and changes bit 7 exactly
\* when the blink state toggles.
C10_BlinkStep ==
  (pc = "displayBinaryWithBlink_loop") =>
     /\ result < 0
     /\ And7F(LATD) = -result
     /\ (LATD >= 128) = blink_state
     /\ \/ resetPressed' /\ pc' = "getNum1_first" /\ LATD' = 0
        \/ /\ ~resetPressed'
           /\ pc' = pc /\ result' = result
           /\ And7F(LATD') = And7F(LATD)
           /\ ((LATD' >= 128) # (LATD >= 128)) = (blink_counter' = 0)

C10_NegativeBlink == [][C10_BlinkStep]_vars

\* -22 shown with the sign LED on
C10_Witness ==
  /\ pc = "displayBinaryWithBlink_loop"
  /\ result = -22
  /\ blink_state
  /\ LATD = 128 + 22

\* refreshDisplay() has stored a new value and its first displayNumber()
\* has not yet executed a statement
RefreshEntry ==
  {DisplayPc("displayDigit_tens_off", RefreshAt(site, 0)) : site \in ReturnSites}

\* displayNumber(currentDisplayValue) has executed a statement, or returned
Multiplexing == pc \in DisplayPcs \ RefreshEntry

\* the decimal digits whose glyph is on the segment bus, and whether the
\* decimal-point segment is lit
DigitsShown(latd) == {d \in AllDigits : digitPatterns[d + 1] = And7F(latd)}
PointLit(latd) == latd >= SEG_DP
Magnitude(r) == IF r < 0 THEN 0 - r ELSE r

\* C11: while displayNumber multiplexes a result r in -99..99, whenever the
\* tens digit is selected the bus shows the digit |r| div 10 without the
\* decimal point, and whenever the units digit is selected it shows the
\* digit |r| mod 10 with the decimal point lit exactly when r < 0.
C11_SignedTwoDigits ==
  (Multiplexing /\ currentDisplayValue >= -99 /\ currentDisplayValue <= 99) =>
     /\ LATA = 2 ^ TENS_DIGIT_PIN =>
          /\ DigitsShown(LATD) = {Magnitude(currentDisplayValue) \div 10}
          /\ ~PointLit(LATD)
     /\ LATA = 2 ^ UNITS_DIGIT_PIN =>
          /\ DigitsShown(LATD) = {Magnitude(currentDisplayValue) % 10}
          /\ PointLit(LATD) = (currentDisplayValue < 0)

\* -6 is on the display as "06" with the decimal point of the units digit
C11_Witness ==
  /\ pc = "displayResult_show"
  /\ typed = <<0, 0, OP_SUB, 0, 6, KEY_HASH>>
  /\ result = -6 /\ currentDisplayValue = -6
  /\ LATA = 2
  /\ LATD = 128 + 95

\* operand 1 typed as one digit directly followed by the operator key, and
\* as the two digits 0, d followed by the operator key
TypedDigitThenOp ==
  Len(typed) >= 2 /\ IsDigit(typed[1]) /\ IsOperator(typed[2])
TypedZeroDigitThenOp ==
  /\ Len(typed) >= 3
  /\ typed[1] = 0 /\ IsDigit(typed[2]) /\ IsOperator(typed[3])

\* C12: a calculation whose operand 1 was typed as d directly followed by
\* the operator op, and one whose operand 1 was typed as 0, d and then op,
\* end with the same result for the same operand 2: in both, the result is
\* the variant's doOperation of d, operand 2 and op, with num1 = d.
C12_LeadingZeroRoundTrip ==
  (ShowingResult /\ NoResetTyped) =>
     /\ TypedDigitThenOp =>
          /\ num1 = typed[1] /\ operator = typed[2]
          /\ result = doOperation(variant, typed[1], TypedOperand2, typed[2])
     /\ TypedZeroDigitThenOp =>
          /\ num1 = typed[2] /\ operator = typed[3]
          /\ result = doOperation(variant, typed[2], TypedOperand2, typed[3])

\* 0, 7, C, 3, '#', '#': 21, as for 7, C, 3, '#', '#'
C12_Witness ==
  /\ ShowingResult
  /\ typed = <<0, 7, OP_MUL, 3, KEY_HASH, KEY_HASH>>
  /\ num1 = 7 /\ result = 21

\* the key the program acted on last
LastTyped == typed[Len(typed)]

\* C13: getOperator returns without scanning (the program goes from the
\* second wait of getNum1 straight to getNum2) exactly when the key that
\* ended operand 1 was an operator key, and the operator stored is that
\* key; otherwise nothing is captured and getOperator scans until one of
\* the four operator keys (stored as the operator) or Reset.  During
\* operand-1 entry no operator is held, so none of an earlier cycle is
\* reused.
C13_Step ==
  /\ pc \in {"getNum1_first", "getNum1_second"} => operator = 0
  /\ (pc = "getNum1_second" /\ pc' \notin {"getNum1_first", "getNum1_second"}) =>
       /\ typed' # typed
       /\ IF IsOperator(LastTyped')
            THEN pc' = "getNum2_first" /\ operator' = LastTyped'
            ELSE pc' = "getOperator_wait" /\ operator' = 0
  /\ (pc = "getOperator_wait" /\ pc' # pc) =>
       \/ resetPressed' /\ pc' = "getNum1_first"
       \/ /\ ~resetPressed'
          /\ Len(typed') = Len(typed) + 1
          /\ IsOperator(LastTyped')
          /\ operator' = LastTyped'
          /\ pc' = "getNum2_first"

C13_OperatorFastPath == [][C13_Step]_vars

\* a later cycle (a result of an earlier one is still stored) whose
\* operand 1 was ended by '#': getOperator is scanning, no operator held
C13_Witness ==
  /\ pc = "getOperator_wait"
  /\ result = 2
  /\ typed = <<1, KEY_HASH>>
  /\ operator = 0

\* the keys that are not valid at a wait point (None included)
InvalidKeys(at) ==
  CASE at \in {"getNum1_first", "getNum2_first"} ->
         OperatorKeys \cup {KEY_HASH, KEY_NONE}
    [] at = "getNum1_second" -> {KEY_NONE}
    [] at = "getOperator_wait" -> DigitKeys \cup {KEY_HASH, KEY_NONE}
    [] at = "getNum2_second" -> OperatorKeys \cup {KEY_NONE}
    [] at = "displayResult_wait" -> DigitKeys \cup OperatorKeys \cup {KEY_NONE}
    [] OTHER -> {KEY_NONE}

\* C14: a step in which scanKeypad() returned None or a key that is not
\* valid at the current wait point leaves the wait point, num1, num2 and
\* the operator as they were; and a selected operator changes in no step
\* other than a Reset.
C14_Step ==
  /\ \/ UNCHANGED <<pc, num1, num2, operator, typed>>
     \/ \A k \in InvalidKeys(pc) : ~Step(k)
  /\ (operator # 0 /\ ~resetPressed') => operator' = operator

C14_InvalidKeysIgnored == [][C14_Step]_vars

\* 12, B, 2 typed: the program waits for the second digit of operand 2 or
\* '#', where operator keys are invalid
C14_Witness ==
  /\ pc = "getNum2_second"
  /\ typed = <<1, 2, OP_SUB, 2>>
  /\ num1 = 12 /\ operator = OP_SUB

\* the session state of the specification the program is in, by the
\* scanKeypad() call it is blocked at
SessionState ==
  CASE pc \in {"getNum1_first", "getNum1_second"} -> "AwaitingOperand1"
    [] pc = "getOperator_wait" -> "AwaitingOperator"
    [] pc \in {"getNum2_first", "getNum2_second"} -> "AwaitingOperand2"
    [] pc = "displayResult_wait" -> "AwaitingConfirm"
    [] pc \in ShowStates -> "ShowingResult"
    [] OTHER -> "none"

\* the transitions of the session state machine, by the key that causes
\* them: from, to, Reset pressed, key acted on
SessionTransition(from, to, reset, k) ==
  \/ reset /\ to = "AwaitingOperand1"
  \/ /\ ~reset
     /\ \/ from = "AwaitingOperand1" /\ to = "AwaitingOperand2" /\ IsOperator(k)
        \/ /\ from = "AwaitingOperand1" /\ to = "AwaitingOperator"
           /\ (IsDigit(k) \/ k = KEY_HASH)
        \/ from = "AwaitingOperator" /\ to = "AwaitingOperand2" /\ IsOperator(k)
        \/ /\ from = "AwaitingOperand2" /\ to = "AwaitingConfirm"
           /\ (IsDigit(k) \/ k = KEY_HASH)
        \/ from = "AwaitingConfirm" /\ to = "ShowingResult" /\ k = KEY_HASH

\* C15: the program starts in AwaitingOperand1, and every step that
\* changes the session state is a transition of the table, taken on the
\* key the table names for it; a step with Reset leads to AwaitingOperand1.
C15_Step ==
  /\ SessionState' # SessionState =>
       SessionTransition(SessionState, SessionState', resetPressed', LastTyped')
  /\ resetPressed' => SessionState' = "AwaitingOperand1"

C15_RefinesSessionMachine ==
  SessionState = "AwaitingOperand1" /\ [][C15_Step]_vars

\* what the display presents stays the same over a step: the LED pattern
\* up to the blinking sign bit, or the number multiplexed and its frame
SameDisplay ==
  IF variant = "LED"
    THEN /\ And7F(LATD') = And7F(LATD)
         /\ pc # "displayBinaryWithBlink_loop" => LATD' = LATD
    ELSE /\ currentDisplayValue' = currentDisplayValue
         /\ isDisplayNegative' = isDisplayNegative
         /\ LATA' = LATA /\ LATD' = LATD

\* C16: while a result is shown (steady, blinking, or after the
\* divide-by-zero indication), a step taking a digit, an operator, Confirm
\* or None keeps the wait point, the result and what is displayed; only a
\* step taking Reset leaves ShowingResult.
C16_Step ==
  ShowingResult =>
     /\ \A k \in KeyCodes \ {KEY_RESET} :
          Step(k) => (pc' = pc /\ result' = result /\ SameDisplay)
     /\ Step(KEY_RESET) => ~ShowingResult'
     /\ ~ShowingResult' => resetPressed'

C16_ResultStaysUntilReset == [][C16_Step]_vars

\* the LED variant after 2 / 0: all LEDs off, waiting for Reset
C16_Witness ==
  /\ variant = "LED"
  /\ pc = "displayResult_error"
  /\ errorIndication
  /\ typed = <<2, OP_DIV, 0, KEY_HASH, KEY_HASH>>

\* some key moves the program to another wait point
MovesOn == \E k \in KeyCodes : ENABLED (Step(k) /\ pc' # pc)

\* C17: no state is terminal or stuck: in every reachable state some key
\* press moves the program to another wait point; with a user who keeps
\* pressing keys and does not withhold Reset for ever the program is in
\* AwaitingOperand1 again and again, from whatever state it has reached;
\* and the Reset that ends a shown result leads to AwaitingOperand1.
C17_NoStuckState ==
  /\ []MovesOn
  /\ []<>(SessionState = "AwaitingOperand1")
  /\ [][(ShowingResult /\ resetPressed') =>
          SessionState' = "AwaitingOperand1"]_vars

\* a cycle has been completed (its result is still stored) and ended by
\* Reset: the program waits for operand 1 again
C17_Witness ==
  /\ pc = "getNum1_first"
  /\ resetPressed
  /\ typed = <<>>
  /\ result = 4

\* C18: in every state of either variant num1 and num2 are in 0..99.
C18_OperandsWithin99 ==
  /\ num1 >= 0 /\ num1 <= 99
  /\ num2 >= 0 /\ num2 <= 99

\* C19 as stated: in the LED variant a product is saturated at 255 (it is
\* the product itself up to 255); in the 7-segment variant at -99 and 99.
C19_MulClampedTo255 ==
  (ShowingResult /\ NoResetTyped /\ operator = OP_MUL) =>
     /\ variant = "LED" =>
          result = (IF num1 * num2 > 255 THEN 255 ELSE num1 * num2)
     /\ variant = "SevenSeg" =>
          result = (IF num1 * num2 > 99 THEN 99
                    ELSE IF num1 * num2 < -99 THEN -99 ELSE num1 * num2)

\* C19 as amended: in the LED variant a product above MAX_INPUT = 99 is
\* saturated at 99 (with no check on the negative side); in the 7-segment
\* variant the product is saturated at -99 and 99.  The LED pattern shown
\* is the saturated product, so the presenter's limit of 255 is not met.
C19_MulClampedTo99 ==
  (ShowingResult /\ NoResetTyped /\ operator = OP_MUL) =>
     /\ variant = "LED" =>
          /\ result = (IF num1 * num2 > MAX_INPUT THEN MAX_INPUT ELSE num1 * num2)
          /\ LATD = result
     /\ variant = "SevenSeg" =>
          result = (IF num1 * num2 > 99 THEN 99
                    ELSE IF num1 * num2 < -99 THEN -99 ELSE num1 * num2)

\* 99 * 99 on the LED variant: 99 on the LEDs
C19_Witness ==
  /\ variant = "LED"
  /\ pc = "displayResult_positive"
  /\ typed = <<9, 9, OP_MUL, 9, 9, KEY_HASH>>
  /\ result = 99 /\ LATD = 99

\* displayResult() played its "waiting for '#'" blink before the wait it
\* is in: it does so exactly if waitingForHashKey is not set at entry,
\* and the flag is not written between the entry and the wait
AwaitSignalShown == AwaitingConfirm /\ ~waitingForHashKey

\* C20: when the program waits for Confirm before the result is computed,
\* the "awaiting confirm" signal has been shown exactly if operand 2 was
\* completed by its second digit (Confirm not yet consumed), and not if
\* operand 2 was ended by Confirm.
C20_AwaitSignalWhenNoConfirmYet ==
  (AwaitingConfirm /\ NoResetTyped) => (AwaitSignalShown <=> Typed2Len = 2)

\* C21: a division of a (num1, 0..99) by b (num2, 1..99) shows the
\* integer quotient truncated toward zero, 0 <= result <= a and
\* b * result <= a < b * (result + 1), in both variants, and neither the
\* error indication nor the error loop is entered.
C21_DivisionTruncates ==
  (ShowingResult /\ NoResetTyped /\ operator = OP_DIV /\ num2 >= 1) =>
     /\ num1 = TypedOperand1 /\ num2 = TypedOperand2
     /\ result >= 0 /\ result <= num1
     /\ num2 * result <= num1
     /\ num1 < num2 * (result + 1)
     /\ ~errorIndication
     /\ pc # "displayResult_error"
     /\ NumberPresented

\* 99 / 4 = 24 on the 7-segment variant
C21_Witness ==
  /\ variant = "SevenSeg"
  /\ pc = "displayResult_show"
  /\ typed = <<9, 9, OP_DIV, 4, KEY_HASH, KEY_HASH>>
  /\ result = 24 /\ currentDisplayValue = 24

(* ------------------------------------------------------------------ *)
(* scanKeypad(), statement by statement (both programs)                *)
(* ------------------------------------------------------------------ *)
\* 'unsigned char timeout = 100': the polls of the release wait
ReleasePolls == 100

\* the keys that may be down at the same time
MaxHeld == 2

KeyPositions == (0..3) \X (0..3)

\* calculatorLED.c: the key of row r and column c
keyTable_LED(r, c) ==
  CASE r = 0 -> (CASE c = 0 -> 1 [] c = 1 -> 2 [] c = 2 -> 3 [] c = 3 -> 10)
    [] r = 1 -> (CASE c = 0 -> 4 [] c = 1 -> 5 [] c = 2 -> 6 [] c = 3 -> 11)
    [] r = 2 -> (CASE c = 0 -> 7 [] c = 1 -> 8 [] c = 2 -> 9 [] c = 3 -> 12)
    [] r = 3 -> (CASE c = 0 -> 14 [] c = 1 -> 0 [] c = 2 -> 15 [] c = 3 -> 13)

\* mutant of keyTable_7Seg: rows and columns exchanged
keyTable_7Seg_transposed(r, c) ==
  CASE c = 0 -> (CASE r = 0 -> 1 [] r = 1 -> 2 [] r = 2 -> 3 [] r = 3 -> 10)
    [] c = 1 -> (CASE r = 0 -> 4 [] r = 1 -> 5 [] r = 2 -> 6 [] r = 3 -> 11)
    [] c = 2 -> (CASE r = 0 -> 7 [] r = 1 -> 8 [] r = 2 -> 9 [] r = 3 -> 12)
    [] c = 3 -> (CASE r = 0 -> 14 [] r = 1 -> 0 [] r = 2 -> 15 [] r = 3 -> 13)

\* calculatorSevenSeg.c: the key of row r and column c
keyTable_7Seg(r, c) ==
  CASE r = 0 -> (CASE c = 0 -> 1 [] c = 1 -> 2 [] c = 2 -> 3 [] c = 3 -> 10)
    [] r = 1 -> (CASE c = 0 -> 4 [] c = 1 -> 5 [] c = 2 -> 6 [] c = 3 -> 11)
    [] r = 2 -> (CASE c = 0 -> 7 [] c = 1 -> 8 [] c = 2 -> 9 [] c = 3 -> 12)
    [] r = 3 -> (CASE c = 0 -> 14 [] c = 1 -> 0 [] c = 2 -> 15 [] c = 3 -> 13)

keyTable(v, r, c) ==
  IF v = "LED" THEN keyTable_LED(r, c) ELSE keyTable_7Seg(r, c)

\* bit c of the column lines
ColumnHigh(latb, c) == (latb \div (2 ^ c)) % 2 = 1

\* LATB |= (1 << c)
SetColumn(latb, c) == IF ColumnHigh(latb, c) THEN latb ELSE latb + 2 ^ c

\* mutant of ClearColumn: the column line stays high
ClearColumn_stays(latb, c) == latb

\* LATB &= ~(1 << c)
ClearColumn(latb, c) == IF ColumnHigh(latb, c) THEN latb - 2 ^ c ELSE latb

\* mutant of RowAsserted: a key that is down asserts its row whichever
\* column is driven
RowAsserted_anyColumn(latb, h, r) ==
  \E c \in 0..3 : <<r, c>> \in h

\* PORTB & (1 << (r + 4)): the rows have pull-down resistors, so row r reads
\* high when a key that is down connects it to a column that is driven high
RowAsserted(latb, h, r) ==
  \E c \in 0..3 : ColumnHigh(latb, c) /\ <<r, c>> \in h

\* calculatorSevenSeg.c refreshes the display at the start of a call and in
\* every poll of the release wait (displayMode is never DISPLAY_OPERATOR)
scanKeypad_refresh ==
  IF variant = "SevenSeg"
       /\ displayMode \in {DISPLAY_NUM1, DISPLAY_NUM2, DISPLAY_RESULT,
                           DISPLAY_RESET}
    THEN ShowNumber(currentDisplayValue)
    ELSE UNCHANGED <<LATA, LATD>>

\* what scanKeypad() leaves alone
ScanFrame ==
  <<boardVars, variant, num1, num2, operator, result, waitingForHashKey, validInput,
    errorIndication, typed, resetPressed, ledVars, segDigits, segDisplay,
    storedNum1, savedNum1>>

ScanPcs ==
  {"scanKeypad_call", "scanKeypad_column", "scanKeypad_row",
   "scanKeypad_release", "scanKeypad_return"}

\* the calculator waits for the first key of operand 1
InitScan ==
  /\ variant \in Variants
  /\ pc = "scanKeypad_call"
  /\ num1 = 0 /\ num2 = 0 /\ operator = 0 /\ result = 0
  /\ waitingForHashKey = FALSE /\ validInput = FALSE
  /\ num11 = 0 /\ num12 = 0 /\ num21 = 0 /\ num22 = 0
  /\ number = 0 /\ blink_counter = 0 /\ blink_state = FALSE
  /\ num1_tens = 0 /\ num1_units = 0 /\ num2_tens = 0 /\ num2_units = 0
  /\ displayMode = IF variant = "SevenSeg" THEN DISPLAY_NUM1 ELSE 0
  /\ previousMode = IF variant = "SevenSeg" THEN DISPLAY_NUM1 ELSE 0
  /\ currentDisplayValue = 0
  /\ isDisplayNegative = FALSE
  /\ storedNum1 = 0 /\ savedNum1 = 0
  /\ LATA = IF variant = "SevenSeg" THEN displayDigit_LATA(1) ELSE 0
  /\ LATD = IF variant = "SevenSeg"
              THEN displayDigit_LATD(displayNumber_units(0), FALSE) ELSE 0
  /\ errorIndication = FALSE
  /\ typed = <<>>
  /\ resetPressed = FALSE
  /\ ScanIdle
  /\ BoardIdle

\* a call begins: key = 0xFF; the display refresh; LATB &= 0xF0; col = 0
scanKeypad_begin ==
  /\ pc \in {"scanKeypad_call", "scanKeypad_return"}
  /\ pc' = "scanKeypad_column"
  /\ key' = KEY_NONE
  /\ scanKeypad_refresh
  /\ LATB' = 0
  /\ col' = 0
  /\ heldChanged' = FALSE
  /\ UNCHANGED <<ScanFrame, row, timeout, held, tapped, pressDetected, pressTimedOut>>

\* for (col ...; col < 4; ...): LATB |= (1 << col); row = 0
scanKeypad_columnHigh ==
  /\ pc = "scanKeypad_column"
  /\ col < 4
  /\ pc' = "scanKeypad_row"
  /\ LATB' = SetColumn(LATB, col)
  /\ row' = 0
  /\ UNCHANGED <<ScanFrame, LATA, LATD, col, key, timeout, held, heldChanged,
                 tapped, pressDetected, pressTimedOut>>

\* col = 4: return 0xFF (the locals col, row and timeout end with the call)
scanKeypad_returnNone ==
  /\ pc = "scanKeypad_column"
  /\ col >= 4
  /\ pc' = "scanKeypad_return"
  /\ col' = 0 /\ row' = 0 /\ timeout' = 0
  /\ UNCHANGED <<ScanFrame, LATA, LATD, LATB, key, held, heldChanged,
                 tapped, pressDetected, pressTimedOut>>

\* for (row ...; row < 4; ...) if (PORTB & (1 << (row + 4))): the key of the
\* table, timeout = 100; otherwise row++
scanKeypad_readRow ==
  /\ pc = "scanKeypad_row"
  /\ row < 4
  /\ IF RowAsserted(LATB, held, row)
       THEN /\ key' = keyTable(variant, row, col)
            /\ timeout' = ReleasePolls
            /\ pc' = "scanKeypad_release"
            /\ pressDetected' = (pressDetected \/ <<row, col>> = tapped)
            /\ heldChanged' = FALSE
            /\ UNCHANGED row
       ELSE /\ row' = row + 1
            /\ UNCHANGED <<pc, key, timeout, pressDetected, heldChanged>>
  /\ UNCHANGED <<ScanFrame, LATA, LATD, LATB, col, held, tapped, pressTimedOut>>

\* row = 4: LATB &= ~(1 << col); col++
scanKeypad_columnLow ==
  /\ pc = "scanKeypad_row"
  /\ row >= 4
  /\ pc' = "scanKeypad_column"
  /\ LATB' = ClearColumn(LATB, col)
  /\ col' = col + 1
  /\ UNCHANGED <<ScanFrame, LATA, LATD, row, key, timeout, held, heldChanged,
                 tapped, pressDetected, pressTimedOut>>

\* mutant of scanKeypad_poll: the poll counter counts up
scanKeypad_poll_countUp ==
  /\ pc = "scanKeypad_release"
  /\ RowAsserted(LATB, held, row) /\ timeout > 0
  /\ scanKeypad_refresh
  /\ timeout' = timeout + 1
  /\ UNCHANGED <<ScanFrame, pc, LATB, col, row, key, held, heldChanged,
                 tapped, pressDetected, pressTimedOut>>

\* while ((PORTB & (1 << (row + 4))) && timeout > 0): one poll, timeout--
scanKeypad_poll ==
  /\ pc = "scanKeypad_release"
  /\ RowAsserted(LATB, held, row) /\ timeout > 0
  /\ scanKeypad_refresh
  /\ timeout' = timeout - 1
  /\ UNCHANGED <<ScanFrame, pc, LATB, col, row, key, held, heldChanged,
                 tapped, pressDetected, pressTimedOut>>

\* mutant of scanKeypad_returnKey: no release wait
scanKeypad_returnKey_noWait ==
  /\ pc = "scanKeypad_release"
  /\ pc' = "scanKeypad_return"
  /\ LATB' = ClearColumn(LATB, col)
  /\ col' = 0 /\ row' = 0 /\ timeout' = 0
  /\ pressTimedOut' = (pressTimedOut
                         \/ (<<row, col>> = tapped /\ tapped \in held
                               /\ timeout = 0))
  /\ UNCHANGED <<ScanFrame, LATA, LATD, key, held, heldChanged, tapped,
                 pressDetected>>

\* the release wait ends, the row low or the polls used up:
\* LATB &= ~(1 << col); return key (the locals col, row and timeout end with
\* the call)
scanKeypad_returnKey ==
  /\ pc = "scanKeypad_release"
  /\ ~(RowAsserted(LATB, held, row) /\ timeout > 0)
  /\ pc' = "scanKeypad_return"
  /\ LATB' = ClearColumn(LATB, col)
  /\ col' = 0 /\ row' = 0 /\ timeout' = 0
  /\ pressTimedOut' = (pressTimedOut
                         \/ (<<row, col>> = tapped /\ tapped \in held
                               /\ timeout = 0))
  /\ UNCHANGED <<ScanFrame, LATA, LATD, key, held, heldChanged, tapped,
                 pressDetected>>

\* the user presses a key
keyDown ==
  /\ pc \in ScanPcs
  /\ tapped = <<>>
  /\ Cardinality(held) < MaxHeld
  /\ \E p \in KeyPositions \ held : held' = held \cup {p}
  /\ heldChanged' = (pc \in {"scanKeypad_column", "scanKeypad_row"})
  /\ UNCHANGED <<ScanFrame, pc, LATA, LATD, LATB, col, row, key, timeout,
                 tapped, pressDetected, pressTimedOut>>

\* the user lets go of a key
keyUp ==
  /\ pc \in ScanPcs
  /\ tapped = <<>>
  /\ \E p \in held : held' = held \ {p}
  /\ heldChanged' = (pc \in {"scanKeypad_column", "scanKeypad_row"})
  /\ UNCHANGED <<ScanFrame, pc, LATA, LATD, LATB, col, row, key, timeout,
                 tapped, pressDetected, pressTimedOut>>

NextScan ==
  \/ scanKeypad_begin
  \/ scanKeypad_columnHigh
  \/ scanKeypad_returnNone
  \/ scanKeypad_readRow
  \/ scanKeypad_columnLow
  \/ scanKeypad_poll
  \/ scanKeypad_returnKey
  \/ keyDown
  \/ keyUp

SpecScan == InitScan /\ [][NextScan]_vars

\* One key tapped time and again, no other key down.
InitTap ==
  /\ variant \in Variants
  /\ pc = "scanKeypad_call"
  /\ num1 = 0 /\ num2 = 0 /\ operator = 0 /\ result = 0
  /\ waitingForHashKey = FALSE /\ validInput = FALSE
  /\ num11 = 0 /\ num12 = 0 /\ num21 = 0 /\ num22 = 0
  /\ number = 0 /\ blink_counter = 0 /\ blink_state = FALSE
  /\ num1_tens = 0 /\ num1_units = 0 /\ num2_tens = 0 /\ num2_units = 0
  /\ displayMode = IF variant = "SevenSeg" THEN DISPLAY_NUM1 ELSE 0
  /\ previousMode = IF variant = "SevenSeg" THEN DISPLAY_NUM1 ELSE 0
  /\ currentDisplayValue = 0
  /\ isDisplayNegative = FALSE
  /\ storedNum1 = 0 /\ savedNum1 = 0
  /\ LATA = IF variant = "SevenSeg" THEN displayDigit_LATA(1) ELSE 0
  /\ LATD = IF variant = "SevenSeg"
              THEN displayDigit_LATD(displayNumber_units(0), FALSE) ELSE 0
  /\ errorIndication = FALSE
  /\ typed = <<>>
  /\ resetPressed = FALSE
  /\ LATB = 0
  /\ col = 0 /\ row = 0 /\ key = KEY_NONE /\ timeout = 0
  /\ held = {}
  /\ heldChanged = FALSE
  /\ tapped \in KeyPositions
  /\ pressDetected = FALSE /\ pressTimedOut = FALSE
  /\ BoardIdle

\* the tapped key goes down: a new press
tapDown ==
  /\ pc \in ScanPcs
  /\ tapped \in KeyPositions
  /\ held = {}
  /\ held' = {tapped}
  /\ heldChanged' = (pc \in {"scanKeypad_column", "scanKeypad_row"})
  /\ pressDetected' = FALSE /\ pressTimedOut' = FALSE
  /\ UNCHANGED <<ScanFrame, pc, LATA, LATD, LATB, col, row, key, timeout,
                 tapped>>

\* the tapped key goes up: the press is over
tapUp ==
  /\ pc \in ScanPcs
  /\ tapped \in held
  /\ held' = {}
  /\ heldChanged' = (pc \in {"scanKeypad_column", "scanKeypad_row"})
  /\ UNCHANGED <<ScanFrame, pc, LATA, LATD, LATB, col, row, key, timeout,
                 tapped, pressDetected, pressTimedOut>>

NextTap ==
  \/ scanKeypad_begin
  \/ scanKeypad_columnHigh
  \/ scanKeypad_returnNone
  \/ scanKeypad_readRow
  \/ scanKeypad_columnLow
  \/ scanKeypad_poll
  \/ scanKeypad_returnKey
  \/ tapDown
  \/ tapUp

SpecTap == InitTap /\ [][NextTap]_vars

(* ------------------------------------------------------------------ *)
(* Claims about scanKeypad()                                           *)
(* ------------------------------------------------------------------ *)
HighColumns(latb) == {c \in 0..3 : ColumnHigh(latb, c)}

\* the program is between two calls of scanKeypad()
ScanReturned == pc \in {"scanKeypad_call", "scanKeypad_return"}

\* a step of scanKeypad() itself, not of the user
ScanMoved == <<pc, col, row, timeout, LATB, key>>' # <<pc, col, row, timeout, LATB, key>>

\* a step in which a row read finds its input asserted
ScanDetects == pc = "scanKeypad_row" /\ pc' = "scanKeypad_release"

\* a step in which the call returns
ScanReturns == pc # "scanKeypad_return" /\ pc' = "scanKeypad_return"

\* C22: during scanKeypad() at most one of the column lines RB0..RB3 is high
\* at any moment (the one of the column being read), and all four are low
\* whenever the call has returned, with a key or with None.
C22_OneColumnHigh ==
  /\ LATB \in 0..15
  /\ Cardinality(HighColumns(LATB)) <= 1
  /\ pc \in {"scanKeypad_row", "scanKeypad_release"} =>
       HighColumns(LATB) = {col}
  /\ ScanReturned => HighColumns(LATB) = {}

\* key 9 (row 2, column 2) was returned, the column lines are low again
C22_Witness ==
  /\ pc = "scanKeypad_return"
  /\ key = 9
  /\ LATB = 0
  /\ held # {}

\* p comes before q in the scan: columns outermost, rows inner
ScanOrderBefore(p, q) == p[2] < q[2] \/ (p[2] = q[2] /\ p[1] < q[1])

FirstInScanOrder(h) ==
  CHOOSE p \in h : \A q \in h \ {p} : ScanOrderBefore(p, q)

C23_Step ==
  /\ ScanDetects =>
       /\ <<row, col>> \in held
       /\ key' = keyTable(variant, row, col)
       /\ key' # KEY_NONE
       /\ ~heldChanged => <<row, col>> = FirstInScanOrder(held)
  /\ pc = "scanKeypad_release" => key' = key
  /\ ScanReturns =>
       /\ key' = key
       /\ key' = KEY_NONE <=> pc = "scanKeypad_column"
       /\ (key' = KEY_NONE /\ ~heldChanged) => held = {}
       /\ key' # KEY_NONE => pc = "scanKeypad_release"

\* C23: one call reports at most one key; with several keys held it is the
\* code of the first asserted (column, row) pair in scan order, columns
\* outermost and rows inner; the call returns 0xFF exactly when no row read
\* of the sweep found its input asserted (with the keys unchanged during the
\* sweep: exactly when no key is down).
C23_FirstInScanOrder == [][C23_Step]_vars

\* keys 7 (row 2, column 0) and 2 (row 0, column 1) are down: 7 is found
C23_Witness ==
  /\ pc = "scanKeypad_release"
  /\ held = {<<2, 0>>, <<0, 1>>}
  /\ key = 7
  /\ timeout = ReleasePolls

\* the keypad as printed: rows top to bottom, columns left to right
KeyLayout ==
  << <<1, 2, 3, OP_ADD>>,
     <<4, 5, 6, OP_SUB>>,
     <<7, 8, 9, OP_MUL>>,
     <<KEY_RESET, 0, KEY_HASH, OP_DIV>> >>

\* C24: the key code of (row, column) is that of the layout 1 2 3 A / 4 5 6 B
\* / 7 8 9 C / * 0 # D, '*' being 0xE and '#' 0xF; the 16 codes are distinct,
\* none is 0xFF, and both programs use the same table.
C24_KeyTable ==
  /\ pc = "scanKeypad_release" => key = KeyLayout[row + 1][col + 1]
  /\ \A p \in KeyPositions :
       /\ keyTable_LED(p[1], p[2]) = KeyLayout[p[1] + 1][p[2] + 1]
       /\ keyTable_7Seg(p[1], p[2]) = keyTable_LED(p[1], p[2])
       /\ keyTable(variant, p[1], p[2]) # KEY_NONE
  /\ Cardinality({keyTable(variant, p[1], p[2]) : p \in KeyPositions}) = 16
  /\ ScanReturned =>
       key \in {keyTable(variant, p[1], p[2]) : p \in KeyPositions}
                 \cup {KEY_NONE}

\* '#' (row 3, column 2) found by the 7-segment program
C24_Witness ==
  /\ variant = "SevenSeg"
  /\ pc = "scanKeypad_release"
  /\ row = 3 /\ col = 2
  /\ key = KEY_HASH

\* the steps a call can still take: the rest of the sweep, or the polls left
ScanRank ==
  CASE pc = "scanKeypad_column" -> ReleasePolls + 2 + (4 - col) * 6 + 1
    [] pc = "scanKeypad_row" ->
         ReleasePolls + 2 + (4 - row) + 1 + (3 - col) * 6 + 1
    [] pc = "scanKeypad_release" -> timeout + 1
    [] OTHER -> 0

C25_Step ==
  /\ (ScanMoved /\ ~ScanReturned) =>
       /\ ScanRank' < ScanRank
       /\ ScanRank' >= 0
  /\ (ScanReturns /\ pc = "scanKeypad_column") =>
       /\ col = 4
       /\ key' = KEY_NONE
  /\ pc = "scanKeypad_release" =>
       /\ timeout \in 0..ReleasePolls
       /\ key = keyTable(variant, row, col)
       /\ (ScanMoved /\ ~ScanReturns) =>
            /\ <<row, col>> \in held
            /\ timeout' = timeout - 1
       /\ ScanReturns => key' = key
       /\ timeout = 0 => (ScanMoved => ScanReturns)

\* C25: every call of scanKeypad() terminates (each of its steps lowers a
\* bounded count of the steps left): with no key found it returns None after
\* one sweep of the four columns, and with a key held it returns after at
\* most 100 release polls, still returning that key's code.
C25_ScanTerminates == [][C25_Step]_vars

\* key 5 is still down after 100 polls: the call is about to return 5
C25_Witness ==
  /\ pc = "scanKeypad_release"
  /\ timeout = 0
  /\ <<row, col>> = <<1, 1>>
  /\ <<1, 1>> \in held
  /\ key = 5

C30_Step ==
  /\ (ScanDetects /\ pressDetected) => pressTimedOut
  /\ ScanDetects => (<<row, col>> = tapped /\ tapped \in held)
  /\ (ScanReturns /\ pc = "scanKeypad_release") =>
       \/ tapped \notin held
       \/ timeout = 0
  /\ (ScanReturns /\ key' # KEY_NONE) =>
       /\ pc = "scanKeypad_release"
       /\ key' = keyTable(variant, tapped[1], tapped[2])
  /\ (pc \in {"scanKeypad_column", "scanKeypad_row"}
        /\ pressDetected /\ ~pressTimedOut) => held = {}

\* C30: a single key press that is released before the release wait times
\* out is reported by at most one call of scanKeypad(): the call that finds
\* it does not return while the key is still down, and the calls after it
\* find nothing until the key is pressed anew.
C30_OneReportPerPress == [][C30_Step]_vars

\* the press was reported once and released; a later call returned None
C30_Witness ==
  /\ pc = "scanKeypad_return"
  /\ key = KEY_NONE
  /\ pressDetected /\ ~pressTimedOut
  /\ held = {}

(* ------------------------------------------------------------------ *)
(* calculatorSevenSeg.c: the display from power-up, by statement       *)
(* ------------------------------------------------------------------ *)
\* initialize() ends with blinkDisplay(3, 500)
BlinkCount == 3

BlinkIterations == 0..(BlinkCount - 1)

\* the iteration the program is in at statement s, if any
BlinkAt(s) == {n \in BlinkIterations : pc = BlinkPc(s, n)}

\* initialize(): the ports cleared, blinkDisplay(3, 500) about to start
InitStartup ==
  /\ variant = "SevenSeg"
  /\ pc = BlinkPc("blinkDisplay_tens_select", 0)
  /\ num1 = 0 /\ num2 = 0 /\ operator = 0 /\ result = 0
  /\ waitingForHashKey = FALSE /\ validInput = FALSE
  /\ num11 = 0 /\ num12 = 0 /\ num21 = 0 /\ num22 = 0
  /\ number = 0 /\ blink_counter = 0 /\ blink_state = FALSE
  /\ num1_tens = 0 /\ num1_units = 0 /\ num2_tens = 0 /\ num2_units = 0
  /\ displayMode = DISPLAY_RESET
  /\ previousMode = DISPLAY_RESET
  /\ currentDisplayValue = 0
  /\ isDisplayNegative = FALSE
  /\ storedNum1 = 0 /\ savedNum1 = 0
  /\ LATA = 0
  /\ LATD = 0
  /\ errorIndication = FALSE
  /\ typed = <<>>
  /\ resetPressed = FALSE
  /\ ScanIdle
  /\ BoardIdle

\* LATA = (1 << TENS_DIGIT_PIN);
blinkDisplay_tens_select ==
  \E n \in BlinkAt("blinkDisplay_tens_select") :
    /\ LATA' = 2 ^ TENS_DIGIT_PIN
    /\ pc' = BlinkPc("blinkDisplay_tens_on", n)
    /\ UNCHANGED <<result, LATD, segDisplay, DisplayFrame>>

\* LATD = 0xFF; after either digit was selected
blinkDisplay_on ==
  \/ \E n \in BlinkAt("blinkDisplay_tens_on") :
       /\ LATD' = 255
       /\ pc' = BlinkPc("blinkDisplay_units_select", n)
       /\ UNCHANGED <<result, LATA, segDisplay, DisplayFrame>>
  \/ \E n \in BlinkAt("blinkDisplay_units_on") :
       /\ LATD' = 255
       /\ pc' = BlinkPc("blinkDisplay_off_select", n)
       /\ UNCHANGED <<result, LATA, segDisplay, DisplayFrame>>

\* LATA = (1 << UNITS_DIGIT_PIN);
blinkDisplay_units_select ==
  \E n \in BlinkAt("blinkDisplay_units_select") :
    /\ LATA' = 2 ^ UNITS_DIGIT_PIN
    /\ pc' = BlinkPc("blinkDisplay_units_on", n)
    /\ UNCHANGED <<result, LATD, segDisplay, DisplayFrame>>

\* LATA = 0x00;
blinkDisplay_off_select ==
  \E n \in BlinkAt("blinkDisplay_off_select") :
    /\ LATA' = 0
    /\ pc' = BlinkPc("blinkDisplay_off_segments", n)
    /\ UNCHANGED <<result, LATD, segDisplay, DisplayFrame>>

\* LATD = 0x00; i++: the next iteration, or after the last one
\* initialize()'s displayNumber(0)
blinkDisplay_off_segments ==
  \E n \in BlinkAt("blinkDisplay_off_segments") :
    /\ LATD' = 0
    /\ pc' = IF n + 1 < BlinkCount
               THEN BlinkPc("blinkDisplay_tens_select", n + 1)
               ELSE DisplayPc("displayDigit_tens_off", "initialize")
    /\ UNCHANGED <<result, LATA, segDisplay, DisplayFrame>>

\* main: resetCalculator() clears the session and calls updateDisplay(0,
\* DISPLAY_RESET), whose refreshDisplay(0) starts its loop
resetCalculator_updateDisplay ==
  /\ pc = "resetCalculator"
  /\ num1' = 0 /\ num2' = 0 /\ operator' = 0
  /\ waitingForHashKey' = FALSE /\ validInput' = FALSE
  /\ displayMode' = DISPLAY_RESET
  /\ currentDisplayValue' = 0
  /\ isDisplayNegative' = FALSE
  /\ pc' = DisplayPc("displayDigit_tens_off", RefreshAt("getNum1", 0))
  /\ UNCHANGED <<variant, result, errorIndication, typed, resetPressed, LATA,
                 LATD, ledVars, segDigits, previousMode, storedNum1,
                 savedNum1, scanVars, boardVars>>

\* getNum1(): the digits cleared, updateDisplay(currentDisplay, DISPLAY_NUM1)
\* with currentDisplay = 0
getNum1_updateDisplay ==
  /\ pc = "getNum1"
  /\ num1_tens' = 0 /\ num1_units' = 0
  /\ validInput' = FALSE
  /\ displayMode' = DISPLAY_NUM1
  /\ currentDisplayValue' = 0
  /\ isDisplayNegative' = FALSE
  /\ pc' = DisplayPc("displayDigit_tens_off", RefreshAt("getNum1_first", 0))
  /\ UNCHANGED <<variant, num1, num2, operator, result, waitingForHashKey,
                 errorIndication, typed, resetPressed, LATA, LATD, ledVars,
                 num2_tens, num2_units, previousMode, storedNum1, savedNum1,
                 scanVars, boardVars>>

\* getNum1(): scanKeypad() returns the first digit k;
\* updateDisplay(currentDisplay, DISPLAY_NUM1) with currentDisplay = k
getNum1_first_updateDisplay(k) ==
  /\ pc = "getNum1_first"
  /\ num1_tens' = k
  /\ validInput' = TRUE
  /\ displayMode' = DISPLAY_NUM1
  /\ currentDisplayValue' = k
  /\ isDisplayNegative' = FALSE
  /\ typed' = Append(typed, k)
  /\ pc' = DisplayPc("displayDigit_tens_off", RefreshAt("getNum1_second", 0))
  /\ UNCHANGED <<variant, num1, num2, operator, result, waitingForHashKey,
                 errorIndication, resetPressed, LATA, LATD, ledVars,
                 num1_units, num2_tens, num2_units, previousMode, storedNum1,
                 savedNum1, scanVars, boardVars>>

\* getNum1(): scanKeypad() returns the second digit k; num1 is set and
\* updateDisplay(num1, DISPLAY_NUM1) called
getNum1_second_updateDisplay(k) ==
  /\ pc = "getNum1_second"
  /\ num1_units' = k
  /\ num1' = Accumulate(num1_tens, k)
  /\ displayMode' = DISPLAY_NUM1
  /\ currentDisplayValue' = num1'
  /\ isDisplayNegative' = (num1' < 0)
  /\ typed' = Append(typed, k)
  /\ pc' = DisplayPc("displayDigit_tens_off", RefreshAt("getOperator_wait", 0))
  /\ UNCHANGED <<variant, num2, operator, result, waitingForHashKey,
                 validInput, errorIndication, resetPressed, LATA, LATD,
                 ledVars, num1_tens, num2_tens, num2_units, previousMode,
                 storedNum1, savedNum1, scanVars, boardVars>>

NextStartup ==
  \/ blinkDisplay_tens_select
  \/ blinkDisplay_on
  \/ blinkDisplay_units_select
  \/ blinkDisplay_off_select
  \/ blinkDisplay_off_segments
  \/ resetCalculator_updateDisplay
  \/ getNum1_updateDisplay
  \/ \E k \in AllDigits : getNum1_first_updateDisplay(k)
  \/ \E k \in AllDigits : getNum1_second_updateDisplay(k)
  \/ updateDisplay_return
  \/ refreshDisplay_again
  \/ displayDigit_off
  \/ displayDigit_pattern
  \/ displayDigit_select

SpecStartup == InitStartup /\ [][NextStartup]_vars

(* ------------------------------------------------------------------ *)
(* Claims about the display multiplexing                               *)
(* ------------------------------------------------------------------ *)
\* the digit-select lines RA0 (tens) and RA1 (units)
TensSelected(lata) == (lata \div (2 ^ TENS_DIGIT_PIN)) % 2 = 1
UnitsSelected(lata) == (lata \div (2 ^ UNITS_DIGIT_PIN)) % 2 = 1

C26_State ==
  /\ ~(TensSelected(LATA) /\ UnitsSelected(LATA))
  /\ Multiplexing =>
       /\ TensSelected(LATA) =>
            LATD = digitPatterns[displayNumber_tens(currentDisplayValue) + 1]
       /\ UnitsSelected(LATA) =>
            And7F(LATD) =
              digitPatterns[displayNumber_units(currentDisplayValue) + 1]

C26_Step ==
  (pc \in DisplayPcs /\ pc' \in DisplayPcs) =>
     /\ LATD' # LATD => (LATA = 0 /\ LATA' = 0)
     /\ (LATA' # LATA /\ LATA' # 0) => (LATA = 0 /\ LATD' = LATD)

\* C26: the digit-select lines RA0 and RA1 are never active together (in
\* blinkDisplay and in displayNumber), and while displayNumber multiplexes a
\* value the bus holds the tens pattern whenever the tens digit is selected
\* and the units pattern whenever the units digit is selected: the segments
\* change only while both digits are deselected.
C26_SelectDiscipline == []C26_State /\ [][C26_Step]_vars

\* 47 is being multiplexed: the tens digit is selected and shows "4"
C26_Witness ==
  /\ pc = DisplayPc("displayDigit_units_off", "getOperator_wait")
  /\ currentDisplayValue = 47
  /\ LATA = 2 ^ TENS_DIGIT_PIN
  /\ LATD = digitPatterns[5]

(* ------------------------------------------------------------------ *)
(* calculatorSevenSeg.c: getOperator() showing the operator            *)
(* ------------------------------------------------------------------ *)
\* 'for (int i = 0; i < 10; i++)' of the operator display
OperatorShows == 10

\* the iteration the operator display is in at statement s, if any
OperatorShowAt(s) == {n \in 0..(OperatorShows - 1) : pc = BlinkPc(s, n)}

\* what the operator display leaves alone
OperatorFrame ==
  <<variant, num1, num2, operator, result, waitingForHashKey, validInput,
    errorIndication, typed, resetPressed, ledVars, segDigits, displayMode,
    isDisplayNegative, previousMode, storedNum1, savedNum1, scanVars, boardVars>>

\* getNum1() has returned after one digit and an operator key (num1 =
\* num1_tens, operator = the key): getOperator() starts with storedNum1 =
\* num1 and shows the operator
InitOperator ==
  /\ variant = "SevenSeg"
  /\ pc = BlinkPc("getOperator_glyph", 0)
  /\ num1 \in AllDigits
  /\ operator \in OperatorKeys
  /\ num2 = 0 /\ result = 0
  /\ waitingForHashKey = FALSE /\ validInput = TRUE
  /\ num11 = 0 /\ num12 = 0 /\ num21 = 0 /\ num22 = 0
  /\ number = 0 /\ blink_counter = 0 /\ blink_state = FALSE
  /\ num1_tens = num1 /\ num1_units = 0
  /\ num2_tens = 0 /\ num2_units = 0
  /\ displayMode = DISPLAY_NUM1
  /\ previousMode = DISPLAY_NUM1
  /\ currentDisplayValue = num1
  /\ isDisplayNegative = FALSE
  /\ storedNum1 = num1 /\ savedNum1 = 0
  /\ LATA = displayDigit_LATA(1)
  /\ LATD = displayDigit_LATD(displayNumber_units(num1), FALSE)
  /\ errorIndication = FALSE
  /\ typed = <<num1, operator>>
  /\ resetPressed = FALSE
  /\ ScanIdle
  /\ BoardIdle

\* displayDigit(temp, 0, false);
getOperator_glyph ==
  \E n \in OperatorShowAt("getOperator_glyph") :
    /\ LATA' = displayDigit_LATA(0)
    /\ LATD' = displayDigit_LATD(operator, FALSE)
    /\ pc' = BlinkPc("getOperator_blank", n)
    /\ UNCHANGED <<currentDisplayValue, OperatorFrame>>

\* displayDigit(11, 1, false);
getOperator_blank ==
  \E n \in OperatorShowAt("getOperator_blank") :
    /\ LATA' = displayDigit_LATA(1)
    /\ LATD' = displayDigit_LATD(11, FALSE)
    /\ pc' = BlinkPc("getOperator_num1", n)
    /\ UNCHANGED <<currentDisplayValue, OperatorFrame>>

\* displayNumber(storedNum1); i++: the next iteration, or
\* currentDisplayValue = storedNum1; return temp
getOperator_num1 ==
  \E n \in OperatorShowAt("getOperator_num1") :
    /\ ShowNumber(storedNum1)
    /\ IF n + 1 < OperatorShows
         THEN /\ pc' = BlinkPc("getOperator_glyph", n + 1)
              /\ UNCHANGED currentDisplayValue
         ELSE /\ pc' = "getOperator_return"
              /\ currentDisplayValue' = storedNum1
    /\ UNCHANGED OperatorFrame

NextOperator ==
  \/ getOperator_glyph
  \/ getOperator_blank
  \/ getOperator_num1

SpecOperator == InitOperator /\ [][NextOperator]_vars

\* the patterns encodeDigit returns for the operator codes
OperatorGlyphs == {operatorPatterns[n] : n \in 1..4}

\* the right digit was written by displayDigit(11, 1, false)
BesideOperator == OperatorShowAt("getOperator_num1") # {}

\* C27: while the operator glyph is shown on the left digit the right digit
\* is blank: displayDigit(11, 1, false) drives the all-segments-off pattern
\* (encodeDigit(11) is PATTERN_BLANK), and encodeDigit returns an operator
\* glyph only for the operator codes 0xA..0xD.
C27_BlankBesideOperator ==
  /\ BesideOperator =>
       /\ UnitsSelected(LATA)
       /\ LATD = PATTERN_BLANK
       /\ encodeDigit(11) = PATTERN_BLANK
  /\ \A d \in (-1)..15 :
       encodeDigit(d) \in OperatorGlyphs => IsOperator(d)

(* ------------------------------------------------------------------ *)
(* Claims about main()                                                 *)
(* ------------------------------------------------------------------ *)
\* main takes one of its three 'continue' statements
MainContinues ==
  /\ pc \in {"main_testNum1", "main_testOperator", "main_testNum2"}
  /\ pc' = "main_resetCalculator"

\* the values getNum1() and getNum2() return for one and for two digit keys
OperandValues ==
  {Accumulate(t, u) : t \in AllDigits, u \in AllDigits}
    \cup {SingleDigit(t) : t \in AllDigits}

C28_Step ==
  /\ MainContinues => resetPressed
  /\ (pc \in {"main_testNum1", "main_testNum2"} /\ ~resetPressed) =>
       /\ (IF pc = "main_testNum1" THEN num1 ELSE num2) \in OperandValues
       /\ pc' # "main_resetCalculator"
  /\ (pc = "main_testOperator" /\ ~resetPressed) =>
       /\ operator \in OperatorKeys
       /\ pc' # "main_resetCalculator"
  /\ MainContinues =>
       /\ OperandValues = 0..MAX_INPUT
       /\ KEY_NONE \notin OperandValues
       /\ 0 \notin OperatorKeys

\* C28: main abandons a cycle (takes a 'continue') only when Reset was
\* pressed during the getNum1, getOperator or getNum2 call just returned: no
\* operand 0..99 is the sentinel 0xFF and no operator A..D is the sentinel 0,
\* so an entry is never taken for a reset.
C28_ContinueOnlyOnReset == [][C28_Step]_vars

\* the LED program's getNum2 returned 0xFF after '*': main took the continue
C28_Witness ==
  /\ variant = "LED"
  /\ pc = "main_resetCalculator"
  /\ num2 = 255
  /\ resetPressed

(* ------------------------------------------------------------------ *)
(* Claims about the LED presenter's error loop                         *)
(* ------------------------------------------------------------------ *)
\* displayResult() of calculatorLED.c is in its divide-by-zero wait loop
InErrorLoop == variant = "LED" /\ pc = "displayResult_error"

\* C29: on the LED variant the divide-by-zero wait loop of displayResult is
\* entered exactly when the operator is Div and operand 2 is 0; a result of
\* -1 of a subtraction is shown as the number 1 with the sign bit blinking
\* and with no error indication.
C29_ErrorLoopOnlyForDivByZero ==
  (variant = "LED" /\ ShowingResult /\ NoResetTyped) =>
     /\ num1 = TypedOperand1 /\ num2 = TypedOperand2
     /\ InErrorLoop <=> (operator = OP_DIV /\ num2 = 0)
     /\ InErrorLoop => (result = -1 /\ errorIndication)
     /\ (result = -1 /\ ~(operator = OP_DIV /\ num2 = 0)) =>
          /\ operator = OP_SUB /\ num2 = num1 + 1
          /\ pc = "displayBinaryWithBlink_loop"
          /\ number = 1
          /\ And7F(LATD) = 1
          /\ LATD = blinkPattern(1, blink_state)
          /\ ~errorIndication

\* 0 - 1 = -1: the LEDs show 1, the sign bit lit in this phase of the blink
C29_Witness ==
  /\ variant = "LED"
  /\ pc = "displayBinaryWithBlink_loop"
  /\ num1 = 0 /\ operator = OP_SUB /\ num2 = 1
  /\ result = -1
  /\ number = 1
  /\ LATD = 129

(* ------------------------------------------------------------------ *)
(* Project_4: the photoresistor lock box                               *)
(*                                                                     *)
(* main() polls the confirm button (RC7, low when pressed) and the two *)
(* photoresistors (RC4, RC5, high when covered) once per pass of its   *)
(* loop; the emergency button raises INT0, whose service routine runs  *)
(* between any two statements of main.  The loop is modelled one       *)
(* statement group per step, a new step after every delay; the service *)
(* routine, during which main() does not run, is one step.  The        *)
(* status LEDs D1 and D2 (blink_d1, LATC) play no part in any property *)
(* below and are left out.                                             *)
(* ------------------------------------------------------------------ *)

\* main() clears pr1_activated/pr2_activated every 1000 passes; the model
\* scales that period down
ResetPasses == 2

PATTERN_0 == SEG_A + SEG_B + SEG_C + SEG_D + SEG_E + SEG_F
PATTERN_1 == SEG_B + SEG_C
PATTERN_2 == SEG_A + SEG_B + SEG_D + SEG_E + SEG_G
PATTERN_3 == SEG_A + SEG_B + SEG_C + SEG_D + SEG_G
PATTERN_4 == SEG_B + SEG_C + SEG_F + SEG_G

\* bit b of a port latch
LatBit(v, b) == (v \div (2 ^ b)) % 2
LatSet(v, b) == IF LatBit(v, b) = 1 THEN v ELSE v + 2 ^ b
LatClear(v, b) == IF LatBit(v, b) = 1 THEN v - 2 ^ b ELSE v

\* the switch on the digit in main() and display_digit()
display_pattern(digit) ==
  CASE digit = 0 -> PATTERN_0
    [] digit = 1 -> PATTERN_1
    [] digit = 2 -> PATTERN_2
    [] digit = 3 -> PATTERN_3
    [] digit = 4 -> PATTERN_4
    [] OTHER -> PATTERN_0

\* mutant of next_digit: the digit counts on past 4
next_digit_noWrap(d) == d + 1

\* if (digit < 4) digit++; else digit = 0;
next_digit(d) == IF d < 4 THEN d + 1 ELSE 0

\* mutant of pack_code: the digits are packed ones first
pack_code_swapped(tens, ones) == (ones * 16 + tens) % 256

\* entered_code = (tens_digit << 4) | ones_digit, digits below 16
pack_code(tens, ones) == (tens * 16 + ones) % 256

\* the calculator does not run
CalculatorOff ==
  /\ num1 = 0 /\ num2 = 0 /\ operator = 0 /\ result = 0
  /\ waitingForHashKey = FALSE /\ validInput = FALSE
  /\ num11 = 0 /\ num12 = 0 /\ num21 = 0 /\ num22 = 0
  /\ number = 0 /\ blink_counter = 0 /\ blink_state = FALSE
  /\ num1_tens = 0 /\ num1_units = 0 /\ num2_tens = 0 /\ num2_units = 0
  /\ displayMode = 0 /\ previousMode = 0
  /\ currentDisplayValue = 0
  /\ isDisplayNegative = FALSE
  /\ storedNum1 = 0 /\ savedNum1 = 0
  /\ errorIndication = FALSE
  /\ typed = <<>>
  /\ resetPressed = FALSE

\* what no step of the lock box touches
LockFrame ==
  <<variant, num1, num2, operator, result, waitingForHashKey, validInput,
    errorIndication, typed, resetPressed, ledVars, segDigits, segDisplay,
    storedNum1, savedNum1, scanVars, meterVars>>

\* the observers of the sampled pins
LockSamples == <<button_state, pr1_state, pr2_state, last_button, last_pr1, last_pr2>>

\* main() up to the loop: initialize_system(), two beeps, the locals
InitLock ==
  /\ variant = "LockBox"
  /\ pc = "lock_emergency_test"
  /\ CalculatorOff
  /\ ScanIdle
  /\ MeterIdle
  /\ LockIdle
  /\ LATD = display_pattern(0)
  /\ LATA = LatSet(0, DIGIT_ONES_PIN)

\* if (emergency_active)
lock_emergency_test ==
  /\ pc = "lock_emergency_test"
  /\ pc' = IF emergency_active THEN "lock_emergency_reset" ELSE "lock_read_inputs"
  /\ UNCHANGED <<LockFrame, lockVars, LATA, LATD>>

\* the body of the emergency branch up to prev_button = 1
lock_emergency_reset ==
  /\ pc = "lock_emergency_reset"
  /\ pc' = "lock_emergency_clear"
  /\ system_state' = STATE_READY
  /\ current_digit' = 0
  /\ tens_digit' = 0
  /\ ones_digit' = 0
  /\ LATD' = PATTERN_0
  /\ reset_counter' = 0
  /\ pr1_activated' = FALSE
  /\ pr2_activated' = FALSE
  /\ prev_pr1' = 0
  /\ prev_pr2' = 0
  /\ prev_button' = 1
  /\ UNCHANGED <<LockFrame, LockSamples, entered_code, emergency_active, LATA>>

\* mutant of lock_emergency_clear: the flag is left set
lock_emergency_clear_keepsFlag ==
  /\ pc = "lock_emergency_clear"
  /\ pc' = "lock_read_inputs"
  /\ UNCHANGED <<LockFrame, lockVars, LATA, LATD>>

\* emergency_active = false
lock_emergency_clear ==
  /\ pc = "lock_emergency_clear"
  /\ pc' = "lock_read_inputs"
  /\ emergency_active' = FALSE
  /\ UNCHANGED <<LockFrame, LockSamples, system_state, current_digit, tens_digit,
                 ones_digit, entered_code, prev_button, prev_pr1, prev_pr2,
                 pr1_activated, pr2_activated, reset_counter, LATA, LATD>>

\* button_state = RC7; pr1_state = RC4; pr2_state = RC5; reset_counter++
\* and the periodic clearing of the activation flags
lock_read_inputs ==
  /\ pc = "lock_read_inputs"
  /\ pc' = "lock_button"
  /\ button_state' \in {0, 1}
  /\ pr1_state' \in {0, 1}
  /\ pr2_state' \in {0, 1}
  /\ IF reset_counter + 1 >= ResetPasses
       THEN /\ pr1_activated' = IF pr1_state' = 0 THEN FALSE ELSE pr1_activated
            /\ pr2_activated' = IF pr2_state' = 0 THEN FALSE ELSE pr2_activated
            /\ reset_counter' = 0
       ELSE /\ reset_counter' = reset_counter + 1
            /\ UNCHANGED <<pr1_activated, pr2_activated>>
  /\ UNCHANGED <<LockFrame, last_button, last_pr1, last_pr2, system_state,
                 current_digit, tens_digit, ones_digit, entered_code,
                 emergency_active, prev_button, prev_pr1, prev_pr2, LATA, LATD>>

\* the reset of the photoresistor flags that ends every case of the switch
lock_button_flags ==
  /\ pr1_activated' = FALSE
  /\ pr2_activated' = FALSE
  /\ prev_pr1' = 0
  /\ prev_pr2' = 0

\* what a step of main() that only writes LATA leaves alone
LockLatchFrame ==
  <<LockFrame, lockVars, LATD>>

\* if (!button_state && prev_button): beep(2) begins with BUZZER_ON()
lock_button ==
  /\ pc = "lock_button"
  /\ IF button_state = 0 /\ prev_button = 1
       THEN /\ pc' = "lock_beep2_on"
            /\ LATA' = LatSet(LATA, BUZZER_PIN)
       ELSE /\ pc' = "lock_pr1"
            /\ UNCHANGED LATA
  /\ UNCHANGED LockLatchFrame

\* beep(2): the 300 ms are over, BUZZER_OFF()
lock_beep2_off ==
  /\ pc = "lock_beep2_on"
  /\ pc' = "lock_switch"
  /\ LATA' = LatClear(LATA, BUZZER_PIN)
  /\ UNCHANGED LockLatchFrame

\* the switch on system_state, in STATE_ONES_INPUT up to BUZZER_ON() of
\* beep(3) or of the failure beep
lock_switch ==
  /\ pc = "lock_switch"
  /\ CASE system_state = STATE_READY ->
            /\ pc' = "lock_pr1"
            /\ system_state' = STATE_TENS_INPUT
            /\ tens_digit' = 0
            /\ current_digit' = 0
            /\ LATD' = PATTERN_0
            /\ lock_button_flags
            /\ UNCHANGED <<ones_digit, entered_code, LATA>>
       [] system_state = STATE_TENS_INPUT ->
            /\ pc' = "lock_pr1"
            /\ system_state' = STATE_ONES_INPUT
            /\ ones_digit' = 0
            /\ current_digit' = 0
            /\ LATD' = PATTERN_0
            /\ lock_button_flags
            /\ UNCHANGED <<tens_digit, entered_code, LATA>>
       [] system_state = STATE_ONES_INPUT ->
            /\ entered_code' = pack_code(tens_digit, ones_digit)
            /\ pc' = IF entered_code' = LOCKING_CODE
                       THEN "lock_beep3_on" ELSE "lock_buzzer_on"
            /\ LATA' = LatSet(LATA, BUZZER_PIN)
            /\ UNCHANGED <<system_state, current_digit, tens_digit, ones_digit,
                           LATD, pr1_activated, pr2_activated, prev_pr1, prev_pr2>>
       [] OTHER ->
            /\ pc' = "lock_pr1"
            /\ system_state' = STATE_READY
            /\ current_digit' = 0
            /\ LATD' = PATTERN_0
            /\ UNCHANGED <<tens_digit, ones_digit, entered_code, pr1_activated,
                           pr2_activated, prev_pr1, prev_pr2, LATA>>
  /\ UNCHANGED <<LockFrame, LockSamples, emergency_active, prev_button, reset_counter>>

\* beep(3): the 500 ms are over, BUZZER_OFF()
lock_beep3_off ==
  /\ pc = "lock_beep3_on"
  /\ pc' = "lock_motor_start"
  /\ LATA' = LatClear(LATA, BUZZER_PIN)
  /\ UNCHANGED LockLatchFrame

\* MOTOR_ON()
lock_motor_start ==
  /\ pc = "lock_motor_start"
  /\ pc' = "lock_motor_on"
  /\ LATA' = LatSet(LATA, MOTOR_RELAY_PIN)
  /\ UNCHANGED LockLatchFrame

\* the end of case STATE_ONES_INPUT: back to STATE_READY
lock_button_ready ==
  /\ pc' = "lock_pr1"
  /\ system_state' = STATE_READY
  /\ current_digit' = 0
  /\ LATD' = PATTERN_0
  /\ lock_button_flags
  /\ UNCHANGED <<LockFrame, LockSamples, tens_digit, ones_digit, entered_code,
                 emergency_active, prev_button, reset_counter>>

\* the five seconds are over: MOTOR_OFF()
lock_motor_off ==
  /\ pc = "lock_motor_on"
  /\ LATA' = LatClear(LATA, MOTOR_RELAY_PIN)
  /\ lock_button_ready

\* the two seconds are over: BUZZER_OFF()
lock_buzzer_off ==
  /\ pc = "lock_buzzer_on"
  /\ LATA' = LatClear(LATA, BUZZER_PIN)
  /\ lock_button_ready

\* if (system_state == STATE_TENS_INPUT): on a rising edge of photoresistor
\* 1 the tens digit is incremented and the display cleared (LATD = 0);
\* otherwise pr1_activated is cleared once the sensor is uncovered
lock_pr1 ==
  /\ pc = "lock_pr1"
  /\ IF system_state = STATE_TENS_INPUT
       THEN IF pr1_state = 1 /\ prev_pr1 = 0 /\ ~pr1_activated
              THEN /\ tens_digit' = next_digit(tens_digit)
                   /\ current_digit' = tens_digit'
                   /\ LATD' = 0
                   /\ pc' = "lock_pr1_show"
                   /\ UNCHANGED pr1_activated
              ELSE /\ pr1_activated' = IF pr1_state = 0 THEN FALSE ELSE pr1_activated
                   /\ pc' = "lock_pr2"
                   /\ UNCHANGED <<tens_digit, current_digit, LATD>>
       ELSE /\ pc' = "lock_pr2"
            /\ UNCHANGED <<tens_digit, current_digit, LATD, pr1_activated>>
  /\ UNCHANGED <<LockFrame, LockSamples, system_state, ones_digit, entered_code,
                 emergency_active, prev_button, prev_pr1, prev_pr2, pr2_activated,
                 reset_counter, LATA>>

\* the 5 ms are over: the pattern of current_digit, LATA1 = 1, and beep(1)
\* begins with BUZZER_ON()
lock_pr1_show ==
  /\ pc = "lock_pr1_show"
  /\ pc' = "lock_pr1_beep_on"
  /\ LATD' = display_pattern(current_digit)
  /\ LATA' = LatSet(LatSet(LATA, DIGIT_ONES_PIN), BUZZER_PIN)
  /\ UNCHANGED <<LockFrame, lockVars>>

\* beep(1): the 50 ms are over, BUZZER_OFF()
lock_pr1_beep_off ==
  /\ pc = "lock_pr1_beep_on"
  /\ pc' = "lock_pr1_activate"
  /\ LATA' = LatClear(LATA, BUZZER_PIN)
  /\ UNCHANGED LockLatchFrame

\* pr1_activated = true; after the 200 ms 'if (!pr1_state)' finds the
\* sample that was covered
lock_pr1_activate ==
  /\ pc = "lock_pr1_activate"
  /\ pc' = "lock_pr2"
  /\ pr1_activated' = TRUE
  /\ UNCHANGED <<LockFrame, LockSamples, system_state, current_digit, tens_digit,
                 ones_digit, entered_code, emergency_active, prev_button,
                 prev_pr1, prev_pr2, pr2_activated, reset_counter, LATA, LATD>>

\* if (system_state == STATE_ONES_INPUT): on a rising edge of photoresistor
\* 2 the ones digit is incremented and the display cleared (LATD = 0);
\* otherwise pr2_activated is cleared once the sensor is uncovered and,
\* with no delay in between, the pass ends: prev_button = button_state;
\* prev_pr1 = pr1_state; prev_pr2 = pr2_state
lock_pr2 ==
  /\ pc = "lock_pr2"
  /\ IF system_state = STATE_ONES_INPUT /\ pr2_state = 1 /\ prev_pr2 = 0
        /\ ~pr2_activated
       THEN /\ ones_digit' = next_digit(ones_digit)
            /\ current_digit' = ones_digit'
            /\ LATD' = 0
            /\ pc' = "lock_pr2_show"
            /\ UNCHANGED <<pr2_activated, prev_button, prev_pr1, prev_pr2,
                           last_button, last_pr1, last_pr2>>
       ELSE /\ pr2_activated' = IF system_state = STATE_ONES_INPUT /\ pr2_state = 0
                                  THEN FALSE
                                  ELSE pr2_activated
            /\ prev_button' = button_state
            /\ prev_pr1' = pr1_state
            /\ prev_pr2' = pr2_state
            /\ last_button' = button_state
            /\ last_pr1' = pr1_state
            /\ last_pr2' = pr2_state
            /\ pc' = "lock_emergency_test"
            /\ UNCHANGED <<ones_digit, current_digit, LATD>>
  /\ UNCHANGED <<LockFrame, button_state, pr1_state, pr2_state, system_state,
                 tens_digit, entered_code, emergency_active, pr1_activated,
                 reset_counter, LATA>>

\* the 5 ms are over: the pattern of current_digit, LATA1 = 1, and LED D2
\* goes off for 50 ms
lock_pr2_show ==
  /\ pc = "lock_pr2_show"
  /\ pc' = "lock_pr2_flash"
  /\ LATD' = display_pattern(current_digit)
  /\ LATA' = LatSet(LATA, DIGIT_ONES_PIN)
  /\ UNCHANGED <<LockFrame, lockVars>>

\* LED D2 is back on and beep(1) begins with BUZZER_ON()
lock_pr2_beep_on ==
  /\ pc = "lock_pr2_flash"
  /\ pc' = "lock_pr2_beep_on"
  /\ LATA' = LatSet(LATA, BUZZER_PIN)
  /\ UNCHANGED LockLatchFrame

\* beep(1): the 50 ms are over, BUZZER_OFF()
lock_pr2_beep_off ==
  /\ pc = "lock_pr2_beep_on"
  /\ pc' = "lock_pr2_activate"
  /\ LATA' = LatClear(LATA, BUZZER_PIN)
  /\ UNCHANGED LockLatchFrame

\* pr2_activated = true; after the 200 ms 'if (!pr2_state)' finds the
\* sample that was covered
lock_pr2_activate ==
  /\ pc = "lock_pr2_activate"
  /\ pc' = "lock_update_prev"
  /\ pr2_activated' = TRUE
  /\ UNCHANGED <<LockFrame, LockSamples, system_state, current_digit, tens_digit,
                 ones_digit, entered_code, emergency_active, prev_button,
                 prev_pr1, prev_pr2, pr1_activated, reset_counter, LATA, LATD>>

\* the 200 ms after pr2_activated = true are over: prev_button =
\* button_state; prev_pr1 = pr1_state; prev_pr2 = pr2_state; the pass is
\* over, its samples are now the samples of the pass before
lock_update_prev ==
  /\ pc = "lock_update_prev"
  /\ pc' = "lock_emergency_test"
  /\ prev_button' = button_state
  /\ prev_pr1' = pr1_state
  /\ prev_pr2' = pr2_state
  /\ last_button' = button_state
  /\ last_pr1' = pr1_state
  /\ last_pr2' = pr2_state
  /\ UNCHANGED <<LockFrame, button_state, pr1_state, pr2_state, system_state, current_digit, tens_digit,
                 ones_digit, entered_code, emergency_active, pr1_activated,
                 pr2_activated, reset_counter, LATA, LATD>>

\* the INT0 service routine: the melody (the buzzer ends off),
\* emergency_active = true
ISR ==
  /\ emergency_active' = TRUE
  /\ LATA' = LatClear(LATA, BUZZER_PIN)
  /\ UNCHANGED <<LockFrame, LockSamples, pc, system_state, current_digit, tens_digit,
                 ones_digit, entered_code, prev_button, prev_pr1, prev_pr2,
                 pr1_activated, pr2_activated, reset_counter, LATD>>

\* one statement group of main()
LockMain ==
  \/ lock_emergency_test
  \/ lock_emergency_reset
  \/ lock_emergency_clear
  \/ lock_read_inputs
  \/ lock_button
  \/ lock_beep2_off
  \/ lock_switch
  \/ lock_beep3_off
  \/ lock_motor_start
  \/ lock_motor_off
  \/ lock_buzzer_off
  \/ lock_pr1
  \/ lock_pr1_show
  \/ lock_pr1_beep_off
  \/ lock_pr1_activate
  \/ lock_pr2
  \/ lock_pr2_show
  \/ lock_pr2_beep_on
  \/ lock_pr2_beep_off
  \/ lock_pr2_activate
  \/ lock_update_prev

NextLock == LockMain \/ ISR

SpecLock == InitLock /\ [][NextLock]_vars

\* the loop of main() never blocks: every delay in it is finite
SpecLockLive == InitLock /\ [][NextLock]_vars /\ WF_vars(LockMain)

(* ------------------------------------------------------------------ *)
(* Claims about the lock box                                           *)
(* ------------------------------------------------------------------ *)
MotorOn == LatBit(LATA, MOTOR_RELAY_PIN) = 1
BuzzerOn == LatBit(LATA, BUZZER_PIN) = 1

\* main() is between the test that found the confirm button pressed and
\* the end of the switch
ConfirmPcs ==
  {"lock_beep2_on", "lock_switch", "lock_beep3_on", "lock_motor_start",
   "lock_motor_on", "lock_buzzer_on"}

\* main() processes a press of the confirm button in this step: the switch
\* on system_state runs
ConfirmProcessed == pc = "lock_switch" /\ pc' # pc

C31_State ==
  /\ MotorOn => /\ pc = "lock_motor_on"
                /\ tens_digit = 2 /\ ones_digit = 1
                /\ entered_code = LOCKING_CODE
  /\ pc \in ConfirmPcs => button_state = 0 /\ prev_button = 1
  /\ pc \in {"lock_beep3_on", "lock_motor_start"} =>
        /\ system_state = STATE_ONES_INPUT
        /\ tens_digit = 2 /\ ones_digit = 1

C31_Step ==
  /\ (~MotorOn /\ MotorOn') =>
        /\ pc = "lock_motor_start"
        /\ system_state = STATE_ONES_INPUT
        /\ tens_digit = 2 /\ ones_digit = 1
  /\ (ConfirmProcessed /\ system_state = STATE_ONES_INPUT
        /\ ~(tens_digit = 2 /\ ones_digit = 1)) =>
        /\ ~MotorOn'
        /\ BuzzerOn'
        /\ pc' = "lock_buzzer_on"
  /\ (pc \in {"lock_motor_on", "lock_buzzer_on"} /\ pc' # pc) =>
        /\ ~MotorOn'
        /\ system_state' = STATE_READY

\* C31: the motor is switched on only when a confirm press is processed in
\* STATE_ONES_INPUT with tens_digit = 2 and ones_digit = 1; for every other
\* code the motor stays off and the failure buzzer sounds; either way the
\* motor is off and system_state is STATE_READY once the press is processed
C31_MotorOnlyForLockingCode == []C31_State /\ [][C31_Step]_vars

C31_Witness == MotorOn /\ pc = "lock_motor_on" /\ entered_code = LOCKING_CODE

\* the confirm button went from released to pressed between the pass before
\* and this pass
ButtonPressed == last_button = 1 /\ button_state = 0

\* the step of system_state that a processed press begins
StateAdvances ==
  \/ system_state = STATE_READY /\ system_state' = STATE_TENS_INPUT
  \/ system_state = STATE_TENS_INPUT /\ system_state' = STATE_ONES_INPUT
  \/ system_state = STATE_ONES_INPUT /\ pc' \in {"lock_beep3_on", "lock_buzzer_on"}

C32_Step ==
  /\ system_state' \in {STATE_READY, STATE_TENS_INPUT, STATE_ONES_INPUT}
  /\ (pc = "lock_button" /\ pc' # pc) =>
        /\ system_state' = system_state
        /\ pc' = IF ButtonPressed THEN "lock_beep2_on" ELSE "lock_pr1"
  /\ ConfirmProcessed => StateAdvances
  /\ (pc \in {"lock_motor_on", "lock_buzzer_on"} /\ pc' # pc) =>
        system_state' = STATE_READY

\* C32: each released-to-pressed transition of the confirm button advances
\* system_state by exactly one step of READY -> TENS_INPUT -> ONES_INPUT ->
\* READY, a button that stays pressed causes no further step, and
\* system_state takes no other value
C32_OneStepPerPress == [][C32_Step]_vars

\* photoresistor 1 / 2 went from uncovered to covered between the pass
\* before and this pass
Pr1Covered == last_pr1 = 0 /\ pr1_state = 1
Pr2Covered == last_pr2 = 0 /\ pr2_state = 1

C33_Step ==
  /\ tens_digit' # tens_digit =>
        \/ tens_digit' = 0 /\ pc # "lock_pr1"
        \/ /\ system_state = STATE_TENS_INPUT
           /\ pc = "lock_pr1"
           /\ Pr1Covered
  /\ ones_digit' # ones_digit =>
        \/ ones_digit' = 0 /\ pc # "lock_pr2"
        \/ /\ system_state = STATE_ONES_INPUT
           /\ pc = "lock_pr2"
           /\ Pr2Covered

\* C33: tens_digit changes only in STATE_TENS_INPUT and ones_digit only in
\* STATE_ONES_INPUT, apart from being cleared to 0, and a digit is
\* incremented only on an uncovered-to-covered transition of its
\* photoresistor, never while the sensor merely stays covered
C33_IncrementOnlyOnCovering == [][C33_Step]_vars

\* the segments that show the digits 0..4: a b c d e f, b c, a b d e g,
\* a b c d g, b c f g
SegmentsOfDigit == <<126, 48, 109, 121, 51>>

\* the display is blanked for 5 ms after an increment
Blanked == pc \in {"lock_pr1_show", "lock_pr2_show"}

C34_State ==
  /\ tens_digit \in 0..4 /\ ones_digit \in 0..4
  /\ (system_state = STATE_TENS_INPUT /\ ~Blanked) =>
        LATD = SegmentsOfDigit[tens_digit + 1]
  /\ (system_state = STATE_ONES_INPUT /\ ~Blanked) =>
        LATD = SegmentsOfDigit[ones_digit + 1]

C34_Step ==
  /\ (pc = "lock_pr1" /\ tens_digit' # tens_digit) =>
        /\ tens_digit' = (tens_digit + 1) % 5
        /\ pc' = "lock_pr1_show"
  /\ (pc = "lock_pr2" /\ ones_digit' # ones_digit) =>
        /\ ones_digit' = (ones_digit + 1) % 5
        /\ pc' = "lock_pr2_show"
  /\ (pc = "lock_pr1_show" /\ pc' # pc) =>
        LATD' = SegmentsOfDigit[tens_digit + 1]
  /\ (pc = "lock_pr2_show" /\ pc' # pc) =>
        LATD' = SegmentsOfDigit[ones_digit + 1]

\* C34: tens_digit and ones_digit stay within 0..4, an increment takes a
\* digit d to (d + 1) mod 5, and after an increment (once the 5 ms blanking
\* is over) the segment port shows the pattern of the new digit
C34_DigitsWrapAtFive == []C34_State /\ [][C34_Step]_vars

\* the tens digit has wrapped from 4 to 0 in this stay and shows as 0
C34_Witness ==
  /\ system_state = STATE_TENS_INPUT
  /\ pc = "lock_pr2"
  /\ pr1_activated
  /\ tens_digit = 0
  /\ LATD = SegmentsOfDigit[1]

\* the state the emergency branch of main() leaves behind
EmergencyServed ==
  /\ system_state = STATE_READY
  /\ tens_digit = 0 /\ ones_digit = 0 /\ current_digit = 0
  /\ ~emergency_active

\* C35: whenever the service routine has set emergency_active, main()
\* eventually is in STATE_READY with tens_digit, ones_digit and
\* current_digit 0 and emergency_active false, in whatever state and at
\* whatever statement of the loop the interrupt arrived
C35_EmergencyServed == emergency_active ~> EmergencyServed

\* the emergency branch has just run while the confirm button was held:
\* prev_button is 1 although the last sample was 0
C35_Witness ==
  /\ pc = "lock_read_inputs"
  /\ EmergencyServed
  /\ button_state = 0 /\ prev_button = 1

C36_Step ==
  emergency_active =>
    /\ ~ConfirmProcessed
    /\ (pc = "lock_pr1" => tens_digit' = tens_digit)
    /\ (pc = "lock_pr2" => ones_digit' = ones_digit)
    /\ (~MotorOn => ~MotorOn')

\* C36: once the service routine has set emergency_active, main() processes
\* no confirm press (no state advance, no code comparison, no motor
\* activation) and increments no digit before it has reset to STATE_READY
C36_NothingBeforeReset == [][C36_Step]_vars

(* ------------------------------------------------------------------ *)
(* Project_5: the light meter                                          *)
(*                                                                     *)
(* main() shows the light level while systemState is 0; an edge on the *)
(* button (RC2, interrupt on change) runs my_ISR between any two       *)
(* statements of main, which halts the system; main then runs          *)
(* Handle_System_Halt.  Every test in main() loads the stored value of *)
(* systemState and interruptTriggered.                                 *)
(*                                                                     *)
(* Read_Light_Level() formats the reading into char data[10] with      *)
(* sprintf and strcat, which write 11 to 14 bytes: the bytes that      *)
(* follow data[9] are overwritten.  gcc makes strcat(data, " lux  ")   *)
(* two stores of 4 bytes, " lux" at data + strlen(data) and "x  " with *)
(* the NUL 3 bytes further, and places the globals in one of two ways: *)
(* without optimisation in the order of main.c 41-46, so that          *)
(* interruptTriggered and systemState are data[10] and data[11]; with  *)
(* -O1, -O2 or -Os in the reverse order, so that lumen begins at       *)
(* data[12].  The model takes both.  The LCD itself plays no part.     *)
(* ------------------------------------------------------------------ *)

\* the halt indicator is bit 3 of LATC
LATC3 == 3

\* for (haltCounter = 0; haltCounter < 20; haltCounter++)
HaltBlinks == 20

\* char data[10]
DataSize == 10

\* the results of the 12-bit converter the model takes: both ends of the
\* range, every length of the printed reading, and one (115) where the
\* float is rounded the other way than the exact value would be
Conversions == {0, 115, 2048, 3900, 4050, 4095}

\* " lux  " and the terminating NUL, the bytes strcat() appends
LuxSuffix == <<32, 108, 117, 120, 32, 32, 0>>

\* voltage = digital * ((float)5.0 / (float)4096);
\* lumen = -302 * voltage + 1498.3;
\* as the float the code stores: its value is significand * 2^(exponent -
\* 23), negated if negative, with 2^23 <= significand < 2^24.  Both
\* products are exact in a float (digital has 12 bits); the sum is made in
\* double and rounded to the nearest float on the store, which rounds the
\* 0.3 of the constant to the last place of the result.
lumen_float(digital) ==
  LET exact == 1498 * 4096 - 302 * (5 * digital)     \* (1498 - 302 * voltage) * 4096
      size == IF 10 * exact + 3 * 4096 < 0           \* |lumen| * 40960
                THEN -(10 * exact + 3 * 4096)
                ELSE 10 * exact + 3 * 4096
      Power(e) == IF e >= 0 THEN 40960 * 2 ^ e ELSE 40960 \div 2 ^ (-e)
      e == CHOOSE x \in -13 .. 10 : Power(x) <= size /\ size < Power(x + 1)
      m == exact * 2 ^ (23 - e - 12) + (3 * 2 ^ (23 - e) + 5) \div 10
      magnitude == IF m < 0 THEN -m ELSE m
  IN IF magnitude = 2 ^ 24
       THEN [negative |-> m < 0, exponent |-> e + 1, significand |-> 2 ^ 23]
       ELSE [negative |-> m < 0, exponent |-> e, significand |-> magnitude]

\* the number of characters sprintf(data, "%.2f", f) writes before the
\* NUL: a sign, the integer part, the point and two decimals of the
\* float's value rounded to the nearest hundredth, a tie to the even one
sprintf_length(f) ==
  LET unit == 2 ^ (23 - f.exponent)
      q == (100 * f.significand) \div unit
      r == (100 * f.significand) % unit
      hundredths == IF 2 * r > unit \/ (2 * r = unit /\ q % 2 = 1) THEN q + 1 ELSE q
      whole == hundredths \div 100
  IN (IF f.negative THEN 1 ELSE 0)
     + (IF whole < 10 THEN 1 ELSE IF whole < 100 THEN 2 ELSE IF whole < 1000 THEN 3 ELSE 4)
     + 3

\* what the build placed in data[10] .. data[13], the bytes the longest
\* reading ("1498.30 lux  ") reaches: gcc -O0 the two flags and nothing
\* the model follows; gcc -O1, -O2 and -Os two bytes of padding and the
\* two low bytes of lumen (the low 16 bits of its significand)
Placements ==
  { <<"interruptTriggered", "systemState", "other", "other">>,
    <<"other", "other", "lumen_0", "lumen_1">> }

\* what no step of the light meter touches
MeterFrame ==
  <<variant, num1, num2, operator, result, waitingForHashKey, validInput,
    errorIndication, typed, resetPressed, ledVars, segDigits, segDisplay,
    storedNum1, savedNum1, LATA, LATD, scanVars, lockVars, placement>>

\* System_Init() has run, in a build with either placement
InitMeter ==
  /\ variant = "LightMeter"
  /\ pc = "main_test_normal"
  /\ CalculatorOff
  /\ ScanIdle
  /\ LockIdle
  /\ systemState = 0 /\ interruptTriggered = 0
  /\ haltCounter = 0
  /\ LATC = 0
  /\ ADCON0_GO = 1
  /\ lumen = [negative |-> FALSE, exponent |-> 0, significand |-> 0]   \* 0.0
  /\ placement \in Placements
  /\ lateInterrupt = FALSE
  /\ LATA = 0
  /\ LATD = 0

\* if (systemState == 0)
main_test_normal ==
  /\ pc = "main_test_normal"
  /\ pc' = IF systemState = 0 THEN "Read_Light_Level" ELSE "main_test_trigger"
  /\ UNCHANGED <<MeterFrame, systemState, interruptTriggered, haltCounter, LATC,
                 ADCON0_GO, lumen, lateInterrupt>>

\* Read_Light_Level(): if (ADCON0bits.GO == 0) the result is converted to
\* lumen, sprintf() writes the reading and its NUL into data[0..7] at most,
\* and strlen(data) is taken for strcat()
Read_Light_Level ==
  /\ pc = "Read_Light_Level"
  /\ IF ADCON0_GO = 0
       THEN /\ \E digital \in Conversions : lumen' = lumen_float(digital)
            /\ pc' = BlinkPc("strcat_first", sprintf_length(lumen'))
       ELSE /\ pc' = "main_test_trigger"
            /\ UNCHANGED lumen
  /\ UNCHANGED <<MeterFrame, systemState, interruptTriggered, haltCounter, LATC,
                 ADCON0_GO, lateInterrupt>>

\* strcat(data, " lux  "), one of its two stores: 4 bytes of LuxSuffix
\* from offset `from` go to data[n + from .. n + from + 3], n = strlen(data);
\* a byte of index 10 or more lands in what the build placed there
strcat ==
  \E n \in 4 .. 7, from \in {0, 3} :
    /\ pc = BlinkPc(IF from = 0 THEN "strcat_first" ELSE "strcat_second", n)
    /\ LET Hit(what) ==
             {j \in 1 .. 4 : /\ n + from + j - 1 >= DataSize
                             /\ placement[n + from + j - DataSize] = what}
           Stored(what, old) ==
             IF Hit(what) = {} THEN old
             ELSE LuxSuffix[from + (CHOOSE j \in Hit(what) : TRUE)]
       IN /\ interruptTriggered' = Stored("interruptTriggered", interruptTriggered)
          /\ systemState' = Stored("systemState", systemState)
          /\ lumen' =
               [lumen EXCEPT !.significand =
                  (lumen.significand \div 65536) * 65536
                  + 256 * Stored("lumen_1", (lumen.significand \div 256) % 256)
                  + Stored("lumen_0", lumen.significand % 256)]
    /\ pc' = IF from = 0 THEN BlinkPc("strcat_second", n) ELSE "LCD_String_xy"
    /\ UNCHANGED <<MeterFrame, haltCounter, LATC, ADCON0_GO, lateInterrupt>>

\* LCD_String_xy(2, 3, data) is over: ADCON0bits.GO = 1; main() waits
\* 300 ms
Read_Light_Level_GO ==
  /\ pc = "LCD_String_xy"
  /\ pc' = "main_test_trigger"
  /\ ADCON0_GO' = 1
  /\ UNCHANGED <<MeterFrame, systemState, interruptTriggered, haltCounter, LATC,
                 lumen, lateInterrupt>>

\* the converter finishes: the hardware clears GO
conversion_done ==
  /\ ADCON0_GO = 1
  /\ ADCON0_GO' = 0
  /\ UNCHANGED <<MeterFrame, pc, systemState, interruptTriggered, haltCounter,
                 LATC, lumen, lateInterrupt>>

\* if (interruptTriggered && ...
main_test_trigger ==
  /\ pc = "main_test_trigger"
  /\ pc' = IF interruptTriggered # 0 THEN "main_test_halted" ELSE "main_test_normal"
  /\ UNCHANGED <<MeterFrame, systemState, interruptTriggered, haltCounter, LATC,
                 ADCON0_GO, lumen, lateInterrupt>>

\* ... && systemState == 1)
main_test_halted ==
  /\ pc = "main_test_halted"
  /\ pc' = IF systemState = 1 THEN "Handle_System_Halt" ELSE "main_test_normal"
  /\ UNCHANGED <<MeterFrame, systemState, interruptTriggered, haltCounter, LATC,
                 ADCON0_GO, lumen, lateInterrupt>>

\* Handle_System_Halt() up to the loop: the halt message, haltCounter = 0
halt_begin ==
  /\ pc = "Handle_System_Halt"
  /\ pc' = "halt_led_on"
  /\ haltCounter' = 0
  /\ UNCHANGED <<MeterFrame, systemState, interruptTriggered, LATC, ADCON0_GO,
                 lumen, lateInterrupt>>

\* haltCounter < 20: LATCbits.LATC3 = 1, then 250 ms
halt_led_on ==
  /\ pc = "halt_led_on"
  /\ haltCounter < HaltBlinks
  /\ pc' = "halt_led_off"
  /\ LATC' = LatSet(LATC, LATC3)
  /\ UNCHANGED <<MeterFrame, systemState, interruptTriggered, haltCounter,
                 ADCON0_GO, lumen, lateInterrupt>>

\* LATCbits.LATC3 = 0, then 250 ms
halt_led_off ==
  /\ pc = "halt_led_off"
  /\ pc' = "halt_count"
  /\ LATC' = LatClear(LATC, LATC3)
  /\ UNCHANGED <<MeterFrame, systemState, interruptTriggered, haltCounter,
                 ADCON0_GO, lumen, lateInterrupt>>

\* the 250 ms are over: haltCounter++
halt_count ==
  /\ pc = "halt_count"
  /\ pc' = "halt_led_on"
  /\ haltCounter' = haltCounter + 1
  /\ UNCHANGED <<MeterFrame, systemState, interruptTriggered, LATC, ADCON0_GO,
                 lumen, lateInterrupt>>

\* the loop is over: interruptTriggered = 0
halt_clear_trigger ==
  /\ pc = "halt_led_on"
  /\ haltCounter >= HaltBlinks
  /\ pc' = "halt_clear_state"
  /\ interruptTriggered' = 0
  /\ UNCHANGED <<MeterFrame, systemState, haltCounter, LATC, ADCON0_GO, lumen,
                 lateInterrupt>>

\* systemState = 0
halt_clear_state ==
  /\ pc = "halt_clear_state"
  /\ pc' = "halt_resume"
  /\ systemState' = 0
  /\ UNCHANGED <<MeterFrame, interruptTriggered, haltCounter, LATC, ADCON0_GO,
                 lumen, lateInterrupt>>

\* LATCbits.LATC3 = 0; the interrupt flags are cleared; the resume message
\* is written and shown for 1 s
halt_resume ==
  /\ pc = "halt_resume"
  /\ pc' = "halt_restart"
  /\ LATC' = LatClear(LATC, LATC3)
  /\ UNCHANGED <<MeterFrame, systemState, interruptTriggered, haltCounter,
                 ADCON0_GO, lumen, lateInterrupt>>

\* the second is over: ADCON0bits.GO = 1, Handle_System_Halt() returns
halt_restart ==
  /\ pc = "halt_restart"
  /\ pc' = "main_test_normal"
  /\ ADCON0_GO' = 1
  /\ haltCounter' = 0
  /\ UNCHANGED <<MeterFrame, systemState, interruptTriggered, LATC, lumen,
                 lateInterrupt>>

\* mutant of my_ISR: the test of systemState is left out
my_ISR_unguarded ==
  /\ systemState' = 1
  /\ interruptTriggered' = 1
  /\ LATC' = LatSet(LATC, LATC3)
  /\ lateInterrupt' = (systemState # 0)
  /\ UNCHANGED <<MeterFrame, pc, haltCounter, ADCON0_GO, lumen>>

\* an edge on RC2: my_ISR tests systemState and halts the system
my_ISR ==
  /\ IF systemState = 0
       THEN /\ systemState' = 1
            /\ interruptTriggered' = 1
            /\ LATC' = LatSet(LATC, LATC3)
       ELSE UNCHANGED <<systemState, interruptTriggered, LATC>>
  /\ lateInterrupt' = (systemState # 0)
  /\ UNCHANGED <<MeterFrame, pc, haltCounter, ADCON0_GO, lumen>>

\* one statement group of main()
MeterMain ==
  \/ main_test_normal
  \/ Read_Light_Level
  \/ strcat
  \/ Read_Light_Level_GO
  \/ main_test_trigger
  \/ main_test_halted
  \/ halt_begin
  \/ halt_led_on
  \/ halt_led_off
  \/ halt_count
  \/ halt_clear_trigger
  \/ halt_clear_state
  \/ halt_resume
  \/ halt_restart

NextMeter == MeterMain \/ my_ISR \/ conversion_done

SpecMeter == InitMeter /\ [][NextMeter]_vars

\* the loop of main() never blocks: every delay in it is finite
SpecMeterLive == InitMeter /\ [][NextMeter]_vars /\ WF_vars(MeterMain)

(* ------------------------------------------------------------------ *)
(* Claims about the light meter                                        *)
(* ------------------------------------------------------------------ *)
\* main() is inside Handle_System_Halt()
InHaltHandler ==
  pc \in {"Handle_System_Halt", "halt_led_on", "halt_led_off", "halt_count",
          "halt_clear_state", "halt_resume", "halt_restart"}

C38_State == interruptTriggered = 1 => systemState = 1

C38_Step ==
  /\ (systemState # 1 /\ systemState' = 1) =>
        /\ systemState = 0
        /\ interruptTriggered' = 1
        /\ pc' = pc
  /\ (systemState = 1 /\ pc' = pc) =>
        /\ systemState' = 1
        /\ interruptTriggered' = interruptTriggered

\* C38: interruptTriggered = 1 implies systemState = 1 in every reachable
\* state, the halted state is entered only from the normal state, and an
\* interrupt that arrives while systemState = 1 leaves systemState and
\* interruptTriggered unchanged
C38_HaltEnteredOnce == []C38_State /\ [][C38_Step]_vars

\* an interrupt arrived during the halt and the halt goes on as before
C38_Witness ==
  /\ lateInterrupt
  /\ InHaltHandler
  /\ systemState = 1 /\ interruptTriggered = 1

====
